---- MODULE Spec2Model ----
(***************************************************************************)
(* A model of NewTrendTaStrategy (src/trader.py): the regime classifier    *)
(* _get_trend, the breakout anticipator _breakout_coming, the transition   *)
(* decision engine _trend_change and the position ledger kept by           *)
(* notify_order; further down the driver next() with its broker, the      *)
(* callers of main.py, OptimizedTaStrategy.next and                       *)
(* DynamicAddReduceStrategy.                                               *)
(*                                                                         *)
(* Numbers.  The source computes in floating point; the model computes in  *)
(* exact integer arithmetic.  Prices and indicator levels are integers, a  *)
(* comparison against a decimal factor is cross-multiplied (x > y * 1.15   *)
(* becomes x * 100 > y * 115), the directive ratio is kept in units of     *)
(* 1/RatioDen (the only non-integer ratio of the source is 0.5), and       *)
(* realized_pnl is kept in units of 1/PnlScale so that the division by     *)
(* hold_shares in avg_cost is exact.                                       *)
(*                                                                         *)
(* Rationale texts are the source's Chinese strings rendered in English;   *)
(* two rules that return the same string in the source return the same     *)
(* string here.                                                            *)
(***************************************************************************)
EXTENDS Integers, Sequences, FiniteSets, TLC

VARIABLES
    pc,               \* position of the caller: "call" before the function under
                      \* study has run, "ret" after; "ledger" while fills are processed
    bar,              \* the indicator values of the current bar (self.xxx[0], self.xxx[-k])
    trend_prev,       \* prev_trend handed to _trend_change (self.trend_prev)
    trend_now,        \* curr_trend / the label computed by _get_trend (self.trend_now)
    trend_ratio,      \* the ratio returned by _trend_change, in units of 1/RatioDen
    signal,           \* the rationale returned by _trend_change
    hold_shares,      \* self.hold_shares
    hold_cost,        \* self.hold_cost
    realized_pnl,     \* self.realized_pnl, in units of 1/PnlScale
    max_hold_shares,  \* self.max_hold_shares
    order,            \* the order notification in flight to notify_order, or NoOrder
    nfills,           \* number of notifications delivered so far
    function,         \* self.p.function: "trend" (execution) or "suggestion" (advisory)
    start_nav,        \* self.start_nav; None is the value None
    self_signal,      \* self.signal, the advisory string, as [kind, text, value]
    entry_score,      \* entry_score of the last next(), the value of _is_good_entry_point
    vol_ratio,        \* self.vol_ratio as the fraction <<numerator, denominator>>
    sent,             \* the buy() / sell() calls made by the latest next(), in order
    state,            \* self.state of DynamicAddReduceStrategy
    track,            \* its last_nav, recent_high, recent_low and total_invested
    cash,             \* the broker's cash, broker.getcash()
    position,         \* the broker's position size, getposition().size
    submitted,        \* the order the broker holds, given by buy() / sell(), or NoSubmit
    series,           \* the bars of the data feed when the feed is fixed in advance
    results,          \* what get_signal() returned at the end of each finished run
    batch,            \* the loop of backtest_funds / suggest_funds over the sheet's rows
    forecast          \* an advisory entry point building the series with its forecast bar

vars == <<pc, bar, trend_prev, trend_now, trend_ratio, signal,
          hold_shares, hold_cost, realized_pnl, max_hold_shares, order, nfills,
          function, start_nav, self_signal, entry_score, vol_ratio, sent,
          state, track,
          cash, position, submitted, series, results, batch, forecast>>

engineVars == <<trend_prev, trend_now, trend_ratio, signal>>
ledgerVars == <<hold_shares, hold_cost, realized_pnl, max_hold_shares>>
strategyVars == <<function, start_nav, self_signal, entry_score, vol_ratio, sent,
                  state, track>>
brokerVars == <<cash, position, submitted>>
runVars == <<series, results, batch, forecast>>
driverVars == <<strategyVars, brokerVars, runVars>>

----------------------------------------------------------------------------
(* Trend labels, trader.py 2361-2367 and 2309-2321.                        *)

Labels == {"SU", "WU", "CO", "SD", "WD", "UT"}

\* Denominator of the ratio unit: the literal 0.5 of trader.py 2372 is 1/2.
RatioDen == 2

Abs(x) == IF x < 0 THEN -x ELSE x

Count(flags) == Cardinality({i \in DOMAIN flags : flags[i]})

----------------------------------------------------------------------------
(* Overbought / oversold, trader.py 2184-2202.                             *)

_is_overbought(b) ==
    LET rsi_overbought == b.rsi > 70
        kdj_overbought == b.kdj_j > 80
        price_at_top_bb == b.close > b.bb_top
    IN  rsi_overbought \/ kdj_overbought \/ price_at_top_bb

_is_oversold(b) ==
    LET rsi_oversold == b.rsi < 30
        kdj_oversold == b.kdj_j < 20
        price_at_bottom_bb == b.close < b.bb_bot
    IN  rsi_oversold \/ kdj_oversold \/ price_at_bottom_bb

----------------------------------------------------------------------------
(* Breakout anticipator, trader.py 2323-2351.  b.len is len(self).         *)

BreakoutSignals(b) ==
    LET bb_width_now == b.bb_top - b.bb_bot
        bb_width_prev == IF b.len > 5 THEN b.bb_top_5 - b.bb_bot_5 ELSE 0
        bb_opening == bb_width_now * 100 > bb_width_prev * 115
        atr_rising == IF b.len > 3 THEN b.atr * 10 > b.atr_3 * 11 ELSE FALSE
        adx_rising == IF b.len > 3 THEN b.adx > b.adx_3 + 2 ELSE FALSE
        ma5 == b.ma_short
        ma10 == b.ma_mid
        price_break_ma == \/ (b.close > ma5 /\ ma5 > ma10)
                          \/ (b.close < ma5 /\ ma5 < ma10)
        vol_rising == b.volume * 10 > b.vol_sma * 13
    IN  <<bb_opening, atr_rising, adx_rising, price_break_ma, vol_rising>>

\* Faulty variant of _breakout_coming: one signal is enough.
_breakout_coming_any(b) == Count(BreakoutSignals(b)) >= 1

_breakout_coming(b) == Count(BreakoutSignals(b)) >= 2

----------------------------------------------------------------------------
(* Transition decision engine, trader.py 2353-2454.  A result is the pair  *)
(* <<ratio, rationale>>; NoRule stands for "this block returned nothing",  *)
(* i.e. control falls through to the next statement.                       *)

NoRule == <<0, "">>

D(ratio, text) == <<ratio * RatioDen, text>>

\* Faulty variant of PersistenceRule: a persisting StrongDown trims like a
\* persisting WeakDown (-1 instead of -2).
PersistenceRuleStrongDownLight(prev_trend, curr_trend) ==
    IF prev_trend = curr_trend
    THEN CASE curr_trend = "WU" -> <<RatioDen \div 2, "hold weak uptrend, small add">>
           [] curr_trend = "WD" -> D(-1, "hold weak downtrend, small trim")
           [] curr_trend = "SU" -> <<RatioDen \div 2, "hold strong uptrend, light add">>
           [] curr_trend = "SD" -> D(-1, "hold strong downtrend, large trim")
           [] OTHER -> NoRule
    ELSE NoRule

\* trader.py 2369-2382: the `if prev_trend == curr_trend` block.  0.5 is RatioDen / 2.
PersistenceRule(prev_trend, curr_trend) ==
    IF prev_trend = curr_trend
    THEN CASE curr_trend = "WU" -> <<RatioDen \div 2, "hold weak uptrend, small add">>
           [] curr_trend = "WD" -> D(-1, "hold weak downtrend, small trim")
           [] curr_trend = "SU" -> <<RatioDen \div 2, "hold strong uptrend, light add">>
           [] curr_trend = "SD" -> D(-2, "hold strong downtrend, large trim")
           [] OTHER -> NoRule
    ELSE NoRule

\* Faulty variant of TransitionRule: Consolidation -> StrongUp is sized like
\* WeakUp -> StrongUp (+2 instead of +3).
TransitionRuleWeakBreakout(prev_trend, curr_trend) ==
    CASE prev_trend = "CO" /\ curr_trend = "WU" -> D(1, "range to weak up, tentative entry")
      [] prev_trend = "WU" /\ curr_trend = "SU" -> D(2, "weak up to strong up, add faster")
      [] prev_trend = "CO" /\ curr_trend = "SU" -> D(2, "range to strong up, strong entry (valid breakout)")
      [] prev_trend = "SU" /\ curr_trend = "WU" -> D(-1, "weak up to range, trim 10%")
      [] prev_trend = "WU" /\ curr_trend = "CO" -> D(-1, "weak up to range, trim 10%")
      [] prev_trend = "SU" /\ curr_trend = "CO" -> D(-2, "strong up ended (possible top), trim 20%")
      [] prev_trend = "CO" /\ curr_trend = "WD" -> D(-3, "range to weak down, trim 20%")
      [] prev_trend = "WD" /\ curr_trend = "SD" -> D(-4, "weak down to strong down, trim 40%")
      [] prev_trend = "CO" /\ curr_trend = "SD" -> D(-5, "range to strong down, trim 50%")
      [] prev_trend = "SD" /\ curr_trend = "WD" -> D(0, "strong down to weak down, no add (no bottom fishing)")
      [] prev_trend = "WD" /\ curr_trend = "CO" -> D(0, "weak down stabilising, no add (range may keep falling)")
      [] prev_trend = "SD" /\ curr_trend = "CO" -> D(0, "strong down stabilising, no add (await reversal confirmation)")
      [] (prev_trend = "WU" /\ curr_trend = "WD") \/ (prev_trend = "WD" /\ curr_trend = "WU")
            -> D(0, "whipsaw, keep watching")
      [] OTHER -> NoRule

\* trader.py 2384-2431: the chain of `if prev == .. and curr == ..: return`.
\* The guards are pairwise exclusive, so the order of the chain does not matter.
TransitionRule(prev_trend, curr_trend) ==
    CASE prev_trend = "CO" /\ curr_trend = "WU" -> D(1, "range to weak up, tentative entry")
      [] prev_trend = "WU" /\ curr_trend = "SU" -> D(2, "weak up to strong up, add faster")
      [] prev_trend = "CO" /\ curr_trend = "SU" -> D(3, "range to strong up, strong entry (valid breakout)")
      [] prev_trend = "SU" /\ curr_trend = "WU" -> D(-1, "weak up to range, trim 10%")
      [] prev_trend = "WU" /\ curr_trend = "CO" -> D(-1, "weak up to range, trim 10%")
      [] prev_trend = "SU" /\ curr_trend = "CO" -> D(-2, "strong up ended (possible top), trim 20%")
      [] prev_trend = "CO" /\ curr_trend = "WD" -> D(-3, "range to weak down, trim 20%")
      [] prev_trend = "WD" /\ curr_trend = "SD" -> D(-4, "weak down to strong down, trim 40%")
      [] prev_trend = "CO" /\ curr_trend = "SD" -> D(-5, "range to strong down, trim 50%")
      [] prev_trend = "SD" /\ curr_trend = "WD" -> D(0, "strong down to weak down, no add (no bottom fishing)")
      [] prev_trend = "WD" /\ curr_trend = "CO" -> D(0, "weak down stabilising, no add (range may keep falling)")
      [] prev_trend = "SD" /\ curr_trend = "CO" -> D(0, "strong down stabilising, no add (await reversal confirmation)")
      [] (prev_trend = "WU" /\ curr_trend = "WD") \/ (prev_trend = "WD" /\ curr_trend = "WU")
            -> D(0, "whipsaw, keep watching")
      [] OTHER -> NoRule

\* Faulty variant of BandDecision: high_sell is tested before low_buy.
BandDecisionSellFirst(b) ==
    LET nav == b.close
        oversold == _is_oversold(b)
        overbought == _is_overbought(b)
        bb_slope == IF b.len > 3 THEN b.bb_top - b.bb_top_3 ELSE 0
        flat_band == Abs(bb_slope) * 10 < 2 * b.atr
        not_volume_dump == b.volume * 10 <= b.vol_sma * 12
        not_volume_breakout == b.volume * 10 <= b.vol_sma * 13
        low_buy == (nav <= b.bb_bot \/ oversold) /\ flat_band /\ not_volume_dump
        high_sell == (nav >= b.bb_top \/ overbought) /\ flat_band /\ not_volume_breakout
    IN  IF high_sell THEN D(-1, "range market, sell high")
        ELSE IF low_buy THEN D(1, "range market, buy low")
        ELSE D(0, "range market, no actionable point")

\* trader.py 2435-2449: the band-position decision of a Consolidation bar.
BandDecision(b) ==
    LET nav == b.close
        oversold == _is_oversold(b)
        overbought == _is_overbought(b)
        bb_slope == IF b.len > 3 THEN b.bb_top - b.bb_top_3 ELSE 0
        flat_band == Abs(bb_slope) * 10 < 2 * b.atr
        not_volume_dump == b.volume * 10 <= b.vol_sma * 12
        not_volume_breakout == b.volume * 10 <= b.vol_sma * 13
        low_buy == (nav <= b.bb_bot \/ oversold) /\ flat_band /\ not_volume_dump
        high_sell == (nav >= b.bb_top \/ overbought) /\ flat_band /\ not_volume_breakout
    IN  IF low_buy THEN D(1, "range market, buy low")
        ELSE IF high_sell THEN D(-1, "range market, sell high")
        ELSE D(0, "range market, no actionable point")

\* Faulty variant of ConsolidationBranch: the band decision is taken without
\* testing that the current label is Consolidation.
ConsolidationBranchAnyLabel(curr_trend, b) ==
    LET break_out_coming == _breakout_coming(b)
    IN  IF ~break_out_coming THEN BandDecision(b)
        ELSE IF curr_trend = "CO" THEN D(0, "range market breaking out, await confirmation")
        ELSE NoRule

\* trader.py 2433-2451: reached when no rule above returned.
ConsolidationBranch(curr_trend, b) ==
    LET break_out_coming == _breakout_coming(b)
    IN  IF curr_trend = "CO" /\ ~break_out_coming THEN BandDecision(b)
        ELSE IF curr_trend = "CO" THEN D(0, "range market breaking out, await confirmation")
        ELSE NoRule

\* Faulty variant of DefaultDirective: the default adds one unit.
DefaultDirectiveHold == D(1, "no action")

\* trader.py 2453-2454.
DefaultDirective == D(0, "no action")

\* trader.py 2353-2454: the first block that returns decides.
_trend_change(prev_trend, curr_trend, b) ==
    LET p == PersistenceRule(prev_trend, curr_trend)
        t == TransitionRule(prev_trend, curr_trend)
        c == ConsolidationBranch(curr_trend, b)
    IN  IF p # NoRule THEN p
        ELSE IF t # NoRule THEN t
        ELSE IF c # NoRule THEN c
        ELSE DefaultDirective

----------------------------------------------------------------------------
(* Regime classifier, trader.py 2059-2145 and 2309-2321.                   *)

_is_strong_up_trend(b) ==
    LET ma_aligned == /\ b.ma_short > b.ma_mid /\ b.ma_mid > b.ma_long
                      /\ b.ema_fast > b.ema_medium /\ b.ema_medium > b.ema_slow
        price_above_ma == b.close > b.ma_short
        strong_trend == b.adx > 25
        positive_momentum == b.momentum > 0
    IN  ma_aligned /\ price_above_ma /\ strong_trend /\ positive_momentum

_is_weak_up_trend(b) ==
    LET ma_weak_aligned == b.ma_short > b.ma_mid /\ b.ma_mid > b.ma_long
        price_above_mid == b.close > b.ma_mid
        weak_momentum == b.momentum > 0
    IN  ma_weak_aligned /\ price_above_mid /\ weak_momentum

_is_strong_down_trend(b) ==
    LET ma_aligned == /\ b.ma_short < b.ma_mid /\ b.ma_mid < b.ma_long
                      /\ b.ema_fast < b.ema_medium /\ b.ema_medium < b.ema_slow
        price_below_mid == b.close < b.ma_mid
        strong_trend == b.adx > 25
        negative_momentum == b.momentum < 0
    IN  ma_aligned /\ price_below_mid /\ strong_trend /\ negative_momentum

_is_weak_down_trend(b) ==
    LET ma_weak_aligned == b.ma_short < b.ma_mid /\ b.ma_mid < b.ma_long
        price_below_short == b.close < b.ma_short
        weak_momentum == b.momentum < 0
    IN  ma_weak_aligned /\ price_below_short /\ weak_momentum

\* trader.py 2139-2141: volatility_sum over self.volatility[-i], i in range(n).
RECURSIVE VolatilitySum(_, _)
VolatilitySum(v, n) == IF n = 0 THEN 0 ELSE v[n - 1] + VolatilitySum(v, n - 1)

\* trader.py 2127-2145.  b.volatility[i] is self.volatility[-i]; osc_band_tol
\* is 0.02 (trader.py 1974).  ma_diff < 0.02 is |d| / close < 2/100 with
\* close > 0; volatility[0] < avg * 0.8 is volatility[0] * 100 < sum * 8.
_is_consolidation(b) ==
    LET low_adx == b.adx < 20
        narrow_bands == Abs(b.ma_short - b.ma_mid) * 100 < 2 * b.close
        volatility_sum == VolatilitySum(b.volatility, 10)
        low_volatility == b.volatility[0] * 100 < volatility_sum * 8
    IN  low_adx \/ narrow_bands \/ low_volatility

\* Faulty variant of _get_trend: the down-trend predicates are tested before
\* the consolidation predicate.
_get_trend_down_first(b) ==
    IF _is_strong_up_trend(b) THEN "SU"
    ELSE IF _is_weak_up_trend(b) THEN "WU"
    ELSE IF _is_strong_down_trend(b) THEN "SD"
    ELSE IF _is_weak_down_trend(b) THEN "WD"
    ELSE IF _is_consolidation(b) THEN "CO"
    ELSE "UT"

\* trader.py 2309-2321.
_get_trend(b) ==
    IF _is_strong_up_trend(b) THEN "SU"
    ELSE IF _is_weak_up_trend(b) THEN "WU"
    ELSE IF _is_consolidation(b) THEN "CO"
    ELSE IF _is_strong_down_trend(b) THEN "SD"
    ELSE IF _is_weak_down_trend(b) THEN "WD"
    ELSE "UT"

----------------------------------------------------------------------------
(* Bars.  next() first runs once every indicator has a value, i.e. from    *)
(* the bar whose number is the longest indicator period (EMA 50,           *)
(* trader.py 1999), so len(self) >= MinPeriod on every bar the strategy    *)
(* sees.  Price levels are around 100 so that the 2% tolerances of the     *)
(* source fall between neighbouring integers.                              *)

MinPeriod == 50

Volatility(v0, h) == [i \in 0..9 |-> IF i = 0 THEN v0 ELSE h]

BaseBar ==
    [len |-> MinPeriod + 1, close |-> 100,
     ma_short |-> 101, ma_mid |-> 100, ma_long |-> 100,
     ema_fast |-> 100, ema_medium |-> 100, ema_slow |-> 100,
     adx |-> 18, adx_3 |-> 18, momentum |-> 0,
     volatility |-> Volatility(5, 5),
     bb_top |-> 102, bb_bot |-> 98, bb_top_3 |-> 102, bb_top_5 |-> 102, bb_bot_5 |-> 98,
     atr |-> 6, atr_3 |-> 6, rsi |-> 50, kdj_j |-> 50,
     volume |-> 12, vol_sma |-> 10]

\* Oscillator readings: one of RSI and J is neutral on every bar.
OscVals == {<<50, 50>>, <<20, 50>>, <<80, 50>>, <<50, 10>>, <<50, 90>>}

\* Bars that exercise _breakout_coming and the band decision: the close on,
\* inside and outside the Bollinger band 98..102; a level or falling upper
\* band; a band that was narrower or as wide 5 bars ago; low and high ATR
\* now and 3 bars ago; ADX rising or level; the short MA on either side of
\* the mid MA; volume at 1.2, 1.3 and 1.4 times its average.
TrendBars ==
    { [BaseBar EXCEPT !.close = c, !.bb_top_3 = t3, !.bb_top_5 = t5,
                      !.atr = a, !.atr_3 = a3, !.adx_3 = x3, !.ma_short = m5,
                      !.volume = v, !.rsi = o[1], !.kdj_j = o[2]] :
        c \in {97, 98, 100, 102, 103}, t3 \in {102, 103}, t5 \in {101, 102},
        a \in {1, 6}, a3 \in {1, 6}, x3 \in {15, 18}, m5 \in {99, 101},
        v \in {12, 13, 14}, o \in OscVals }

\* The reference bar of the hyperproperty: no breakout signal but the band
\* opening, close below the lower band, level band, low volume.
RefBar == [BaseBar EXCEPT !.close = 97, !.bb_top_5 = 101]

\* Bars that exercise the classifier: every ordering of the three simple
\* moving averages, narrow and wide short/mid gaps, aligned and unaligned
\* EMAs, ADX below 20, between 20 and 25 and above 25, momentum of either
\* sign and zero, current volatility low or level against its history.
ClassifyBars ==
    { [BaseBar EXCEPT !.close = c, !.ma_short = m5, !.ma_mid = m10, !.ma_long = m20,
                      !.ema_fast = ef, !.ema_slow = es, !.adx = x, !.momentum = mo,
                      !.volatility = Volatility(v0, 5)] :
        c \in {96, 101, 103}, m5 \in {97, 99, 100, 102}, m10 \in {97, 99, 100, 102},
        m20 \in {97, 99, 100, 102}, ef \in {99, 101}, es \in {99, 101},
        x \in {15, 22, 30}, mo \in {-1, 0, 1}, v0 \in {1, 5} }

----------------------------------------------------------------------------
(* State shared by the specifications.                                     *)

NoOrder == [status |-> "None", size |-> 0, price |-> 0]

LedgerInit ==
    /\ hold_shares = 0
    /\ hold_cost = 0
    /\ realized_pnl = 0
    /\ max_hold_shares = 0
    /\ order = NoOrder
    /\ nfills = 0

\* next(), trader.py 2519-2520: trend_ratio = 0, signal = 'no action'.
EngineInit ==
    /\ trend_ratio = 0
    /\ signal = "no action"

\* The value None of Python.
None == "None"

\* start_nav is None until the position is opened, then <<nav>>.
NoNav == <<>>

\* self.signal = None (trader.py 2037).
NoSignal == [kind |-> None, text |-> "", value |-> 0]

\* The marks of a DynamicAddReduceStrategy before its first bar (trader.py
\* 28-33); recent_high and recent_low are None there and are written on the
\* first bar before they are read.
NoTrack == [last_nav |-> 0, recent_high |-> 0, recent_low |-> 0, total_invested |-> 0]

\* No order is with the broker.
NoSubmit == [kind |-> None, size |-> 0, stage |-> None]

\* __init__, trader.py 1987 and 2037-2053, with the default of the
\* `function` parameter (trader.py 1976); entry_score is a local of next().
StrategyInit ==
    /\ function = "suggestion"
    /\ start_nav = NoNav
    /\ self_signal = NoSignal
    /\ entry_score = 0
    /\ vol_ratio = <<0, 1>>
    /\ sent = <<>>
    /\ state = None
    /\ track = NoTrack

\* The strategy is not run from main.py: no batch, no forecast bar.
NoCaller ==
    /\ batch = None
    /\ forecast = None

\* A broker with no cash, no position and no order; no feed, no finished run.
BrokerIdle ==
    /\ cash = 0
    /\ position = 0
    /\ submitted = NoSubmit
    /\ series = <<>>
    /\ results = <<>>
    /\ NoCaller

----------------------------------------------------------------------------
(* SpecTrend: _trend_change applied to every pair of labels on every bar   *)
(* of TrendBars.                                                           *)

InitTrend ==
    /\ pc = "call"
    /\ bar \in TrendBars
    /\ trend_prev \in Labels
    /\ trend_now \in Labels
    /\ EngineInit
    /\ LedgerInit
    /\ StrategyInit
    /\ BrokerIdle

\* trader.py 2523: trend_ratio, signal = self._trend_change(prev, now).
TrendChange ==
    /\ pc = "call"
    /\ LET d == _trend_change(trend_prev, trend_now, bar)
       IN  /\ trend_ratio' = d[1]
           /\ signal' = d[2]
    /\ pc' = "ret"
    /\ UNCHANGED <<bar, trend_prev, trend_now, ledgerVars, order, nfills, driverVars>>

NextTrend == TrendChange

SpecTrend == InitTrend /\ [][NextTrend]_vars

----------------------------------------------------------------------------
(* SpecClassify: _get_trend applied to every bar of ClassifyBars.          *)

InitClassify ==
    /\ pc = "call"
    /\ bar \in ClassifyBars
    /\ trend_prev = ""
    /\ trend_now = ""
    /\ EngineInit
    /\ LedgerInit
    /\ StrategyInit
    /\ BrokerIdle

\* trader.py 2521: self.trend_now = self._get_trend().
GetTrend ==
    /\ pc = "call"
    /\ trend_now' = _get_trend(bar)
    /\ pc' = "ret"
    /\ UNCHANGED <<bar, trend_prev, trend_ratio, signal, ledgerVars, order, nfills, driverVars>>

NextClassify == GetTrend

SpecClassify == InitClassify /\ [][NextClassify]_vars

----------------------------------------------------------------------------
(* Position ledger, trader.py 2456-2489.                                   *)
(*                                                                         *)
(* Shares and prices are integers.  hold_shares < 1e-12 (trader.py 2475)   *)
(* is hold_shares < 1 on integers.  hold_cost stays an integer; avg_cost   *)
(* = hold_cost / hold_shares has a denominator of at most MaxHold, so      *)
(* every realized amount is an integer in units of 1/PnlScale with         *)
(* PnlScale = MaxHold!.                                                    *)

MaxHold == 4      \* the broker position never exceeds MaxHold shares
MaxPrice == 3     \* fill prices are 1..MaxPrice
MaxFills == 4     \* notifications delivered in one run

RECURSIVE Factorial(_)
Factorial(n) == IF n <= 1 THEN 1 ELSE n * Factorial(n - 1)

PnlScale == Factorial(MaxHold)

\* order.status values of backtrader that notify_order tests.
Statuses == {"Submitted", "Accepted", "Completed", "Canceled", "Margin", "Rejected"}

\* trader.py 2465: avg_cost, in units of 1/PnlScale (the division is exact).
AvgCost(hs, hc) == IF hs > 0 THEN (hc * PnlScale) \div hs ELSE 0

\* Faulty variant of Completed: avg_cost is read after the fill has been
\* added to hold_shares and hold_cost.
CompletedAvgCostAfter(l, ex_size, ex_price) ==
    LET shares1 == l.hold_shares + ex_size
        cost1 == l.hold_cost + ex_size * ex_price
        avg_cost == AvgCost(shares1, cost1)
        realized == IF ex_size < 0 THEN (-ex_size) * (ex_price * PnlScale - avg_cost) ELSE 0
        pnl1 == l.realized_pnl + realized
        shares2 == IF shares1 < 1 THEN 0 ELSE shares1
        cost2 == IF shares1 < 1 THEN 0 ELSE cost1
        max1 == IF shares2 > l.max_hold_shares THEN shares2 ELSE l.max_hold_shares
    IN  [hold_shares |-> shares2, hold_cost |-> cost2,
         realized_pnl |-> pnl1, max_hold_shares |-> max1]

\* Faulty variant of Completed: the epsilon reset clears hold_shares only.
CompletedResetSharesOnly(l, ex_size, ex_price) ==
    LET avg_cost == AvgCost(l.hold_shares, l.hold_cost)
        shares1 == l.hold_shares + ex_size
        cost1 == l.hold_cost + ex_size * ex_price
        realized == IF ex_size < 0 THEN (-ex_size) * (ex_price * PnlScale - avg_cost) ELSE 0
        pnl1 == l.realized_pnl + realized
        shares2 == IF shares1 < 1 THEN 0 ELSE shares1
        max1 == IF shares2 > l.max_hold_shares THEN shares2 ELSE l.max_hold_shares
    IN  [hold_shares |-> shares2, hold_cost |-> cost1,
         realized_pnl |-> pnl1, max_hold_shares |-> max1]

\* Faulty variant of Completed: max_hold_shares follows hold_shares down.
CompletedMaxIsCurrent(l, ex_size, ex_price) ==
    LET avg_cost == AvgCost(l.hold_shares, l.hold_cost)
        shares1 == l.hold_shares + ex_size
        cost1 == l.hold_cost + ex_size * ex_price
        realized == IF ex_size < 0 THEN (-ex_size) * (ex_price * PnlScale - avg_cost) ELSE 0
        pnl1 == l.realized_pnl + realized
        shares2 == IF shares1 < 1 THEN 0 ELSE shares1
        cost2 == IF shares1 < 1 THEN 0 ELSE cost1
    IN  [hold_shares |-> shares2, hold_cost |-> cost2,
         realized_pnl |-> pnl1, max_hold_shares |-> shares2]

\* trader.py 2461-2481: the ledger after a Completed order of executed size
\* ex_size (negative for a sell) at ex_price.
Completed(l, ex_size, ex_price) ==
    LET avg_cost == AvgCost(l.hold_shares, l.hold_cost)
        shares1 == l.hold_shares + ex_size
        cost1 == l.hold_cost + ex_size * ex_price
        realized == IF ex_size < 0 THEN (-ex_size) * (ex_price * PnlScale - avg_cost) ELSE 0
        pnl1 == l.realized_pnl + realized
        shares2 == IF shares1 < 1 THEN 0 ELSE shares1
        cost2 == IF shares1 < 1 THEN 0 ELSE cost1
        max1 == IF shares2 > l.max_hold_shares THEN shares2 ELSE l.max_hold_shares
    IN  [hold_shares |-> shares2, hold_cost |-> cost2,
         realized_pnl |-> pnl1, max_hold_shares |-> max1]

Ledger ==
    [hold_shares |-> hold_shares, hold_cost |-> hold_cost,
     realized_pnl |-> realized_pnl, max_hold_shares |-> max_hold_shares]

\* Faulty variant of notify_order: the order is booked at the close of the
\* bar when the broker accepts it, and again when it is filled.
notify_order_on_accept ==
    /\ pc = "ledger"
    /\ order # NoOrder
    /\ LET l == IF order.status = "Completed"
                THEN Completed(Ledger, order.size, order.price)
                ELSE IF order.status = "Accepted"
                THEN Completed(Ledger, submitted.size, bar.close)
                ELSE Ledger
       IN  /\ hold_shares' = l.hold_shares
           /\ hold_cost' = l.hold_cost
           /\ realized_pnl' = l.realized_pnl
           /\ max_hold_shares' = l.max_hold_shares
    /\ order' = NoOrder
    /\ nfills' = nfills + 1
    /\ UNCHANGED <<pc, bar, engineVars, driverVars>>

\* trader.py 2456-2489: notify_order(order).  Submitted and Accepted return
\* at once; Canceled, Margin and Rejected only log.
notify_order ==
    /\ pc = "ledger"
    /\ order # NoOrder
    /\ IF order.status = "Completed"
       THEN LET l == Completed(Ledger, order.size, order.price)
            IN  /\ hold_shares' = l.hold_shares
                /\ hold_cost' = l.hold_cost
                /\ realized_pnl' = l.realized_pnl
                /\ max_hold_shares' = l.max_hold_shares
       ELSE UNCHANGED ledgerVars
    /\ order' = NoOrder
    /\ nfills' = nfills + 1
    /\ UNCHANGED <<pc, bar, engineVars, driverVars>>

\* notify_order is studied under every fill a broker can deliver for the
\* position, whichever order caused it: buys of any size up to MaxHold shares
\* in total and sells of part or all of the position, at any price.
\*
\* The broker fills a buy: executed.size > 0.  The position is hold_shares;
\* the broker pays size * price out of its cash.
BrokerBuyFill ==
    /\ pc = "ledger" /\ order = NoOrder /\ nfills < MaxFills
    /\ \E s \in 1..(MaxHold - hold_shares), p \in 1..MaxPrice :
          /\ order' = [status |-> "Completed", size |-> s, price |-> p]
          /\ cash' = cash - s * p
    /\ UNCHANGED <<pc, bar, engineVars, ledgerVars, nfills, strategyVars,
                   position, submitted, runVars>>

\* The broker fills a sell of part or all of the position: executed.size < 0.
\* The proceeds size * price go to the broker's cash.
BrokerSellFill ==
    /\ pc = "ledger" /\ order = NoOrder /\ nfills < MaxFills
    /\ \E s \in 1..hold_shares, p \in 1..MaxPrice :
          /\ order' = [status |-> "Completed", size |-> -s, price |-> p]
          /\ cash' = cash + s * p
    /\ UNCHANGED <<pc, bar, engineVars, ledgerVars, nfills, strategyVars,
                   position, submitted, runVars>>

\* The broker reports any other status of an order: nothing was executed.
BrokerStatus ==
    /\ pc = "ledger" /\ order = NoOrder /\ nfills < MaxFills
    /\ \E st \in Statuses \ {"Completed"} :
          order' = [status |-> st, size |-> 0, price |-> 0]
    /\ UNCHANGED <<pc, bar, engineVars, ledgerVars, nfills, driverVars>>

\* Cash that covers every buy of the run.
LedgerCash == MaxHold * MaxPrice * MaxFills

InitLedger ==
    /\ pc = "ledger"
    /\ bar = BaseBar
    /\ trend_prev = ""
    /\ trend_now = ""
    /\ EngineInit
    /\ LedgerInit
    /\ StrategyInit
    /\ cash = LedgerCash
    /\ position = 0
    /\ submitted = NoSubmit
    /\ series = <<>>
    /\ results = <<>>
    /\ NoCaller

NextLedger == BrokerBuyFill \/ BrokerSellFill \/ BrokerStatus \/ notify_order

SpecLedger == InitLedger /\ [][NextLedger]_vars

----------------------------------------------------------------------------
(* Strategy driver, trader.py 2491-2569, with the broker it trades         *)
(* against.                                                                *)
(*                                                                         *)
(* Units.  Cash and amounts are in currency units.  A bar's price levels   *)
(* are in hundredths of a currency unit (close = 100 is a NAV of 1.00), so *)
(* amt / nav is amt * 100 / close and size * price is size * price / 100.  *)
(* Every bar of the driver's feed closes at 100 and fills are at 100 or    *)
(* 200, which keeps shares and cash integers.  Trade sizes that involve    *)
(* reduce_step and bottom_ratio (both 0.10) are computed in units of       *)
(* 1/SizeDen share.                                                        *)

InitialAmount == 1000   \* initial_amount, trader.py 1967
DailyAmount == 200      \* daily_amount, trader.py 1968
ReduceStepPct == 10     \* reduce_step = 0.10, in percent, trader.py 1971
BottomRatioPct == 10    \* bottom_ratio = 0.10, in percent, trader.py 1972
MinCashBuffer == 0      \* min_cash_buffer, trader.py 1975
EntryTimeout == 5       \* len(self) > 5, trader.py 2503

MaxBars == 3            \* bars of the feed that next() processes in one run

Min(a, b) == IF a < b THEN a ELSE b
Max(a, b) == IF a > b THEN a ELSE b

\* Shares bought for amt at a close of nav: size = amt / nav.
Size(amt, nav) == (amt * 100) \div nav

\* Currency value of size shares at price.
Cost(size, price) == (size * price) \div 100

\* Shares are counted in units of 1/SizeDen where percentages and the ratio
\* unit are multiplied in.
SizeDen == 100 * RatioDen

\* trader.py 2306-2307.
_cash_available == cash - MinCashBuffer

\* trader.py 2259-2275: the four conditions of the entry score.  vr is
\* self.vol_ratio; close <= bot * 1.02 is close * 100 <= bot * 102.
EntrySignals(b, vr) ==
    << _is_oversold(b),
       b.momentum > b.momentum_1 /\ b.momentum > 0,
       b.close * 100 <= b.bb_bot * 102,
       vr[1] > vr[2] >>

\* trader.py 2252-2286.
_is_good_entry_point(b, vr) ==
    LET score == Count(EntrySignals(b, vr))
    IN  IF score >= 3 THEN 2 ELSE IF score >= 2 THEN 1 ELSE 0

\* trader.py 2604-2606 (stop): vol / sma if sma > 0 else 0.0.
VolRatioOf(b) == IF b.vol_sma > 0 THEN <<b.volume, b.vol_sma>> ELSE <<0, 1>>

\* Values of self.signal.  Amounts and percentages are kept as numbers; the
\* source formats them with two decimals.
Nothing == [kind |-> "nothing", text |-> "", value |-> 0]
Advice(kind, text, value) == [kind |-> kind, text |-> text, value |-> value]

\* An order handed to the broker by buy(size) / sell(size).
Buy(size) == [kind |-> "buy", size |-> size, stage |-> "new"]
Sell(size) == [kind |-> "sell", size |-> size, stage |-> "new"]

\* Faulty variant of EntryLeaves: the timeout alone does not end the entry
\* phase, a positive score is needed as well.
EntryLeavesScoredAfterTimeout(score, len) == score > 0 /\ len > EntryTimeout

\* Faulty variant of EntryAmount: the daily amount is the base of the entry.
EntryAmountDaily(score) == DailyAmount * score

\* trader.py 2500: entry_amt = self.p.initial_amount * entry_score.
EntryAmount(score) == InitialAmount * score

\* Faulty variant of PrevAfter: the label is recorded only while there is
\* none.
PrevAfterKeepsFirst(prev, now) == IF prev = "" THEN now ELSE prev

\* trader.py 2524: self.trend_prev = self.trend_now.
PrevAfter(prev, now) == now

\* trader.py 2503: the entry phase is left on this bar.
EntryLeaves(score, len) == score > 0 \/ len > EntryTimeout

\* trader.py 2530-2531: add_amt and amt of a positive ratio (ratio in
\* units of 1/RatioDen).
AddAmount(ratio) == (DailyAmount * ratio) \div RatioDen

\* Faulty variant of BuyAmount: the amount is not clipped to the cash.
BuyAmountUnclipped(ratio, cash_avail) == AddAmount(ratio)

BuyAmount(ratio, cash_avail) == Min(AddAmount(ratio), cash_avail)

\* trader.py 2540-2543, in units of 1/SizeDen share: min_allowed,
\* can_reduce, reduce_step (times pos.size) and size_to_sell.
MinAllowed(max_shares) == max_shares * BottomRatioPct * RatioDen

CanReduce(pos, max_shares) == Max(0, pos * SizeDen - MinAllowed(max_shares))

\* reduce_step = self.p.reduce_step * trend_ratio, in percent.
ReduceStep(ratio) == (ReduceStepPct * ratio) \div RatioDen

\* Faulty variant of SizeToSell: the whole position is sold.
SizeToSellAll(pos, ratio, max_shares) == pos * SizeDen

SizeToSell(pos, ratio, max_shares) ==
    Min(pos * ReduceStepPct * ratio, CanReduce(pos, max_shares))

\* trader.py 2544-2546: the sell order that a negative ratio submits.
SellOrder(pos, ratio, max_shares) ==
    IF pos > 0 /\ function = "trend" /\ CanReduce(pos, max_shares) > 0
       /\ SizeToSell(pos, ratio, max_shares) > 0
    THEN Sell(SizeToSell(pos, ratio, max_shares) \div SizeDen)
    ELSE NoSubmit

\* Faulty variant of BuyOrder: the order is submitted in either mode.
BuyOrderAnyMode(ratio, cash_avail, nav) ==
    IF BuyAmount(ratio, cash_avail) > 0
    THEN Buy(Size(BuyAmount(ratio, cash_avail), nav))
    ELSE NoSubmit

\* trader.py 2532-2534: the buy order that a positive ratio submits.
BuyOrder(ratio, cash_avail, nav) ==
    IF BuyAmount(ratio, cash_avail) > 0 /\ function = "trend"
    THEN Buy(Size(BuyAmount(ratio, cash_avail), nav))
    ELSE NoSubmit

\* Faulty variant of RangeEntryBuys: the range entry does not look at
\* start_nav.
RangeEntryBuysAgain(amt) == amt > 0 /\ function = "trend"

\* trader.py 2555: the condition under which the range entry of the
\* transition phase buys.
RangeEntryBuys(amt) == start_nav = NoNav /\ amt > 0 /\ function = "trend"

\* trader.py 2529-2569: the order that the transition phase hands to the
\* broker on the bar nb, or NoSubmit; d is the directive of the bar.
TransitionOrder(nb, score, d) ==
    LET nav == nb.close
        amt == Min(EntryAmount(score), _cash_available)
    IN  IF d[1] > 0 THEN BuyOrder(d[1], _cash_available, nav)
        ELSE IF d[1] < 0 THEN SellOrder(position, d[1], max_hold_shares)
        ELSE IF _get_trend(nb) = "CO" /\ score > 0 /\ RangeEntryBuys(amt)
        THEN Buy(Size(amt, nav))
        ELSE NoSubmit

\* The calls that handing over the order o amounts to.
Ordered(o) == IF o = NoSubmit THEN <<>> ELSE <<o>>

\* Bars processed by next() so far in this run.
Processed == bar.len - (MinPeriod - 1)

\* Faulty variant of EntryPhase: the label of the bar is recorded as the
\* previous trend before the method returns.
EntryPhaseRecordsLabel(nb, score) ==
    LET nav == nb.close
        entry_amt == EntryAmount(score)
        amt == Min(entry_amt, _cash_available)
    IN  /\ IF EntryLeaves(score, nb.len)
           THEN /\ submitted' = IF amt > 0 THEN Buy(Size(amt, nav)) ELSE NoSubmit
                /\ start_nav' = <<nav>>
           ELSE UNCHANGED <<submitted, start_nav>>
        /\ sent' = Ordered(submitted')
        /\ self_signal' = Nothing
        /\ trend_now' = _get_trend(nb)
        /\ trend_prev' = _get_trend(nb)
        /\ UNCHANGED <<trend_ratio, signal>>

\* trader.py 2499-2514: a bar of the entry phase (execution mode, start_nav
\* is None).  The method returns before the trend is looked at.
EntryPhase(nb, score) ==
    LET nav == nb.close
        entry_amt == EntryAmount(score)
        amt == Min(entry_amt, _cash_available)
    IN  /\ IF EntryLeaves(score, nb.len)
           THEN /\ submitted' = IF amt > 0 THEN Buy(Size(amt, nav)) ELSE NoSubmit
                /\ start_nav' = <<nav>>
           ELSE UNCHANGED <<submitted, start_nav>>
        /\ sent' = Ordered(submitted')
        /\ self_signal' = Nothing
        /\ UNCHANGED engineVars

\* trader.py 2515-2569: a bar of the transition phase.
TransitionPhase(nb, score) ==
    LET nav == nb.close
        entry_amt == EntryAmount(score)
        cash_avail == _cash_available
        now == _get_trend(nb)
        d == IF trend_prev # "" THEN _trend_change(trend_prev, now, nb)
             ELSE <<0, "no action">>
        ratio == d[1]
        suggestion == function = "suggestion"
        opening == IF suggestion /\ score > 0
                   THEN Advice("suggest open", "", entry_amt) ELSE Nothing
    IN  /\ trend_now' = now
        /\ trend_prev' = PrevAfter(trend_prev, now)
        /\ trend_ratio' = ratio
        /\ signal' = d[2]
        /\ submitted' = TransitionOrder(nb, score, d)
        /\ sent' = Ordered(submitted')
        /\ IF ratio > 0
           THEN /\ start_nav' = start_nav
                /\ self_signal' =
                      IF BuyOrder(ratio, cash_avail, nav) = NoSubmit /\ suggestion
                      THEN Advice("add", d[2], AddAmount(ratio)) ELSE opening
           ELSE IF ratio < 0
           THEN /\ start_nav' = start_nav
                /\ self_signal' =
                      IF ~(position > 0 /\ function = "trend"
                           /\ CanReduce(position, max_hold_shares) > 0) /\ suggestion
                      THEN Advice("reduce", d[2], ReduceStep(ratio)) ELSE opening
           ELSE IF now = "CO" /\ score > 0
           THEN LET buys == RangeEntryBuys(Min(entry_amt, _cash_available))
                IN  /\ start_nav' = IF buys THEN <<nav>> ELSE start_nav
                    /\ self_signal' =
                          IF ~buys /\ suggestion
                          THEN Advice("range entry", "", entry_amt) ELSE opening
           ELSE /\ start_nav' = start_nav
                /\ self_signal' = IF suggestion THEN Advice("plain", d[2], 0) ELSE opening

\* Faulty variant of next: the entry bar does not return and leaves
\* start_nav to the range entry, so the transition phase runs on it too.
next_entry_falls_through(b) ==
    /\ pc = "ledger" /\ order = NoOrder /\ submitted = NoSubmit
    /\ Processed < MaxBars
    /\ LET nb == [b EXCEPT !.len = bar.len + 1]
           score == _is_good_entry_point(nb, vol_ratio)
           amt == Min(EntryAmount(score), _cash_available)
           now == _get_trend(nb)
           d == IF trend_prev # "" THEN _trend_change(trend_prev, now, nb)
                ELSE <<0, "no action">>
           first == IF EntryLeaves(score, nb.len) /\ amt > 0
                    THEN <<Buy(Size(amt, nb.close))>> ELSE <<>>
           calls == first \o Ordered(TransitionOrder(nb, score, d))
       IN  /\ bar' = nb
           /\ entry_score' = score
           /\ IF start_nav = NoNav /\ function = "trend"
              THEN /\ trend_now' = now
                   /\ trend_prev' = now
                   /\ trend_ratio' = d[1]
                   /\ signal' = d[2]
                   /\ sent' = calls
                   /\ submitted' = IF calls = <<>> THEN NoSubmit ELSE calls[Len(calls)]
                   /\ start_nav' = IF EntryLeaves(score, nb.len) THEN <<nb.close>>
                                   ELSE start_nav
                   /\ self_signal' = Nothing
              ELSE TransitionPhase(nb, score)
    /\ UNCHANGED <<pc, ledgerVars, order, nfills, function, vol_ratio, state, track,
                   cash, position, runVars>>

\* trader.py 2491-2569: next() on the bar b, the whole method.  The broker
\* has dealt with the order of the bar before and every notification has
\* been delivered when next() runs.
next(b) ==
    /\ pc = "ledger" /\ order = NoOrder /\ submitted = NoSubmit
    /\ Processed < MaxBars
    /\ LET nb == [b EXCEPT !.len = bar.len + 1]
           score == _is_good_entry_point(nb, vol_ratio)
       IN  /\ bar' = nb
           /\ entry_score' = score
           /\ IF start_nav = NoNav /\ function = "trend"
              THEN EntryPhase(nb, score)
              ELSE TransitionPhase(nb, score)
    /\ UNCHANGED <<pc, ledgerVars, order, nfills, function, vol_ratio, state, track,
                   cash, position, runVars>>

\* Prices at which the broker fills a market order: the next bar's open.
FillPrices == {100, 200}

Notify(status, size, price) == [status |-> status, size |-> size, price |-> price]

\* The broker takes the order in: notification Submitted.
BrokerSubmitted ==
    /\ pc = "ledger" /\ order = NoOrder /\ submitted.stage = "new"
    /\ order' = Notify("Submitted", 0, 0)
    /\ submitted' = [submitted EXCEPT !.stage = "submitted"]
    /\ UNCHANGED <<pc, bar, engineVars, ledgerVars, nfills, strategyVars,
                   cash, position, runVars>>

\* Notification Accepted.
BrokerAccepted ==
    /\ pc = "ledger" /\ order = NoOrder /\ submitted.stage = "submitted"
    /\ order' = Notify("Accepted", 0, 0)
    /\ submitted' = [submitted EXCEPT !.stage = "accepted"]
    /\ UNCHANGED <<pc, bar, engineVars, ledgerVars, nfills, strategyVars,
                   cash, position, runVars>>

\* The broker executes the order at the next open.  A buy the cash does not
\* cover ends in Margin; executed.size is negative for a sell.
BrokerExecute ==
    /\ pc = "ledger" /\ order = NoOrder /\ submitted.stage = "accepted"
    /\ \E price \in FillPrices :
          LET cost == Cost(submitted.size, price)
          IN  IF submitted.kind = "buy"
              THEN IF cost > cash
                   THEN /\ order' = Notify("Margin", 0, 0)
                        /\ UNCHANGED <<cash, position>>
                   ELSE /\ order' = Notify("Completed", submitted.size, price)
                        /\ cash' = cash - cost
                        /\ position' = position + submitted.size
              ELSE /\ order' = Notify("Completed", -submitted.size, price)
                   /\ cash' = cash + cost
                   /\ position' = position - submitted.size
    /\ submitted' = NoSubmit
    /\ UNCHANGED <<pc, bar, engineVars, ledgerVars, nfills, strategyVars, runVars>>

\* The broker drops the order: notification Canceled or Rejected.
BrokerRefuse ==
    /\ pc = "ledger" /\ order = NoOrder /\ submitted.stage = "accepted"
    /\ \E st \in {"Canceled", "Rejected"} : order' = Notify(st, 0, 0)
    /\ submitted' = NoSubmit
    /\ UNCHANGED <<pc, bar, engineVars, ledgerVars, nfills, strategyVars,
                   cash, position, runVars>>

\* trader.py 2572-2639 and 2659: the feed has ended; stop() assigns
\* self.vol_ratio and, in advisory mode, the caller reads get_signal().  A
\* feed that is given as a series ends with its last bar.
stop ==
    /\ pc = "ledger" /\ order = NoOrder /\ Processed >= 1
    /\ series # <<>> => Processed = Len(series)
    /\ vol_ratio' = VolRatioOf(bar)
    /\ results' = IF function = "suggestion" THEN Append(results, self_signal)
                  ELSE results
    /\ pc' = "stopped"
    /\ UNCHANGED <<bar, engineVars, ledgerVars, order, nfills, function, start_nav,
                   self_signal, entry_score, sent, state, track, brokerVars, series,
                   batch, forecast>>

\* The bars of the driver's feed, all closing at 100.  momentum_1 is
\* self.momentum[-1].
DriverBase == [momentum_1 |-> 0] @@ BaseBar

BarCO == DriverBase
BarCOQuiet == [DriverBase EXCEPT !.volume = 9]
BarCOLowBuy == [DriverBase EXCEPT !.rsi = 20]
BarCOHighSell == [DriverBase EXCEPT !.rsi = 80]
BarCONearBottom == [DriverBase EXCEPT !.bb_bot = 99, !.bb_bot_5 = 99]
BarCOEntry1 == [DriverBase EXCEPT !.rsi = 20, !.bb_bot = 99, !.bb_bot_5 = 99]
BarCOEntry2 == [DriverBase EXCEPT !.rsi = 20, !.bb_bot = 99, !.bb_bot_5 = 99,
                                  !.momentum = 1, !.volume = 9]
BarSU == [DriverBase EXCEPT !.ma_short = 99, !.ma_mid = 96, !.ma_long = 94,
                            !.ema_fast = 101, !.ema_slow = 99,
                            !.adx = 30, !.adx_3 = 30, !.momentum = 1]
BarWU == [BarSU EXCEPT !.adx = 22, !.adx_3 = 22, !.momentum_1 = 1]
BarSD == [DriverBase EXCEPT !.ma_short = 101, !.ma_mid = 104, !.ma_long = 106,
                            !.ema_fast = 99, !.ema_slow = 101,
                            !.adx = 30, !.adx_3 = 30, !.momentum = -1]
BarWD == [BarSD EXCEPT !.adx = 22, !.adx_3 = 22]
BarUT == [DriverBase EXCEPT !.ma_short = 104, !.ma_mid = 100, !.ma_long = 102,
                            !.adx = 22, !.adx_3 = 22]

DriverBars == {BarCO, BarCOQuiet, BarCOLowBuy, BarCOHighSell, BarCONearBottom, BarCOEntry1,
               BarCOEntry2, BarSU, BarWU, BarSD, BarWD, BarUT}

\* Cash the run starts with: ceboro_trend's cash argument.
CashVals == {1000, 1100, 10000}

\* A fresh strategy on a fresh broker, before the first bar of the feed.
InitDriver ==
    /\ pc = "ledger"
    /\ bar = [DriverBase EXCEPT !.len = 0]
    /\ trend_prev = ""
    /\ trend_now = ""
    /\ EngineInit
    /\ LedgerInit
    /\ function \in {"trend", "suggestion"}
    /\ start_nav = NoNav
    /\ self_signal = NoSignal
    /\ entry_score = 0
    /\ vol_ratio = <<0, 1>>
    /\ sent = <<>>
    /\ state = None
    /\ track = NoTrack
    /\ cash \in CashVals
    /\ position = 0
    /\ submitted = NoSubmit
    /\ series = <<>>
    /\ results = <<>>
    /\ NoCaller

\* The engine calls next() once every indicator has a value, that is from
\* bar MinPeriod on.
NextBar ==
    /\ bar.len >= MinPeriod - 1
    /\ \E b \in DriverBars : next(b)

\* Faulty variant of prenext: warm-up bars are handed to next().
prenext_calls_next ==
    /\ bar.len < MinPeriod - 1
    /\ \E b \in DriverBars : next(b)

\* A warm-up bar: some indicator of __init__ (trader.py 1991-2035) has no
\* value yet.  The strategy defines no prenext, so the bar is only counted.
prenext ==
    /\ pc = "ledger"
    /\ bar.len < MinPeriod - 1
    /\ bar' = [bar EXCEPT !.len = bar.len + 1]
    /\ UNCHANGED <<pc, trend_prev, trend_now, engineVars, ledgerVars, order, nfills,
                   driverVars>>

NextDriver ==
    \/ prenext
    \/ NextBar
    \/ BrokerSubmitted
    \/ BrokerAccepted
    \/ BrokerExecute
    \/ BrokerRefuse
    \/ notify_order
    \/ stop

SpecDriver == InitDriver /\ [][NextDriver]_vars

----------------------------------------------------------------------------
(* SpecReplay: ceboro_suggestion (trader.py 2650-2673) called twice on the *)
(* same series.  Each call builds a new engine and a new strategy object,  *)
(* runs next() on every bar of the series, then stop(), and returns        *)
(* get_signal().                                                           *)

\* The state of a newly constructed advisory strategy on a new broker, as
\* the next state; vr is what self.vol_ratio starts from.
Fresh(vr) ==
    /\ pc' = "ledger"
    /\ bar' = [DriverBase EXCEPT !.len = MinPeriod - 1]
    /\ trend_prev' = ""
    /\ trend_now' = ""
    /\ trend_ratio' = 0
    /\ signal' = "no action"
    /\ hold_shares' = 0
    /\ hold_cost' = 0
    /\ realized_pnl' = 0
    /\ max_hold_shares' = 0
    /\ order' = NoOrder
    /\ nfills' = 0
    /\ function' = "suggestion"
    /\ start_nav' = NoNav
    /\ self_signal' = NoSignal
    /\ entry_score' = 0
    /\ vol_ratio' = vr
    /\ sent' = <<>>
    /\ state' = None
    /\ track' = NoTrack
    /\ cash' = cash
    /\ position' = 0
    /\ submitted' = NoSubmit

InitReplay ==
    /\ series \in [1..MaxBars -> DriverBars]
    /\ pc = "ledger"
    /\ bar = [DriverBase EXCEPT !.len = MinPeriod - 1]
    /\ trend_prev = ""
    /\ trend_now = ""
    /\ EngineInit
    /\ LedgerInit
    /\ StrategyInit
    /\ cash = 10000
    /\ position = 0
    /\ submitted = NoSubmit
    /\ results = <<>>
    /\ NoCaller

\* next() on the following bar of the series.
ReplayBar ==
    /\ Processed < Len(series)
    /\ next(series[Processed + 1])

\* Faulty variant of Restart: self.vol_ratio of the finished run is carried
\* into the new strategy object.
RestartKeepsVolRatio ==
    /\ pc = "stopped" /\ Len(results) = 1
    /\ Fresh(vol_ratio)
    /\ UNCHANGED runVars

\* The second call: trader.py 2652-2656 and __init__ (1980-2053).
Restart ==
    /\ pc = "stopped" /\ Len(results) = 1
    /\ Fresh(<<0, 1>>)
    /\ UNCHANGED runVars

NextReplay ==
    \/ ReplayBar
    \/ stop
    \/ Restart

SpecReplay == InitReplay /\ [][NextReplay]_vars

----------------------------------------------------------------------------
(* The callers of main.py.                                                 *)

\* Everything that belongs to a strategy run; the callers of main.py leave
\* it alone between the runs they start.
runState == <<pc, bar, trend_prev, trend_now, engineVars, ledgerVars, order, nfills,
              strategyVars, brokerVars, series, results>>

\* No strategy run is in progress.
MainInit ==
    /\ pc = "main"
    /\ bar = BaseBar
    /\ trend_prev = ""
    /\ trend_now = ""
    /\ EngineInit
    /\ LedgerInit
    /\ StrategyInit
    /\ cash = 0
    /\ position = 0
    /\ submitted = NoSubmit
    /\ series = <<>>
    /\ results = <<>>

(* SpecBatch: backtest_funds (main.py 9-43) and suggest_funds (main.py      *)
(* 45-94) loop over the rows of the sheet.  What happens to a row is an    *)
(* input: "blank" has no fund code; "none" is a row on which every call    *)
(* succeeds; on "base_info" ef.fund.get_base_info raises; on "history"     *)
(* get_fund_history_ef raises (no series for the fund); on "engine" the    *)
(* engine run raises (a series too short for the indicators).              *)

MaxRows == 3            \* rows of the sheet

RowFaults == {"blank", "none", "base_info", "history", "engine"}

\* What one pass of the loop body does with a row whose fault is f:
\* ran - the engine run of the row's fund was completed; reported - a
\* failure was printed; raised - an exception leaves the loop.
\* main.py 20-21: a blank code is skipped.  main.py 29-35: a failure of
\* get_base_info is caught and printed, and the pass goes on.  main.py 37
\* and 86: get_fund_history_ef is called outside any try.  trader.py
\* 2657-2673 and 2678-2693: ceboro_suggestion and ceboro_trend catch what
\* the engine raises and print it.
RowOutcome(f) ==
    [ran |-> f \in {"none", "base_info"},
     reported |-> f \in {"base_info", "engine"},
     raised |-> f = "history"]

InitBatch ==
    /\ MainInit
    /\ forecast = None
    /\ \E caller \in {"backtest_funds", "suggest_funds"} :
       \E rows \in [1..MaxRows -> RowFaults] :
          batch = [caller |-> caller, rows |-> rows, i |-> 1,
                   ran |-> {}, reported |-> {}, status |-> "running"]

\* One pass of the for loop, main.py 18-40 and 54-91.
ProcessRow ==
    /\ batch.status = "running"
    /\ batch.i <= Len(batch.rows)
    /\ LET o == RowOutcome(batch.rows[batch.i])
       IN  batch' = IF o.raised
                    THEN [batch EXCEPT !.status = "raised"]
                    ELSE [batch EXCEPT
                            !.i = @ + 1,
                            !.ran = IF o.ran THEN @ \cup {batch.i} ELSE @,
                            !.reported = IF o.reported THEN @ \cup {batch.i} ELSE @]
    /\ UNCHANGED <<runState, forecast>>

\* main.py 43 and 94: wb.save after the loop.
SaveWorkbook ==
    /\ batch.status = "running"
    /\ batch.i > Len(batch.rows)
    /\ batch' = [batch EXCEPT !.status = "saved"]
    /\ UNCHANGED <<runState, forecast>>

NextBatch ==
    \/ ProcessRow
    \/ SaveWorkbook

SpecBatch == InitBatch /\ [][NextBatch]_vars

(* SpecForecast: the advisory entry points build the series that is run:   *)
(* the history of the fund plus one forecast bar (combine_today_info,      *)
(* trader.py 2697-2714), and report the forecast with the advice           *)
(* (ceboro_suggestion, trader.py 2664).  A close is in hundredths, every   *)
(* close of the history is a whole number of units so that the forecast   *)
(* is exact; a change is in percent: forecast_change * 100.               *)

MaxEstimate == 3        \* the estimated change ranges over -3% .. +3%
MaxHistory == 2         \* bars of the history

HistoryCloses == {100, 200, 300}

Histories ==
    UNION { [1..n -> HistoryCloses] : n \in 1..MaxHistory }

\* The forecast_change handed to combine_today_info, times 100, for an
\* estimate in percent: main.py 87 passes estimate / 100, main.py 171
\* passes estimate.
ChangeArgument(caller, estimate) ==
    IF caller = "suggest_funds" THEN estimate ELSE estimate * 100

\* The forecast_change handed to ceboro_suggestion, times 100: estimate /
\* 100 at main.py 88 and main.py 172.
ChangeReported(caller, estimate) == estimate

\* trader.py 2708-2709: forecast_nav = last_nav * (1 + forecast_change).
ForecastNav(last_nav, change_pct) == (last_nav * (100 + change_pct)) \div 100

InitForecast ==
    /\ MainInit
    /\ batch = None
    /\ \E caller \in {"suggest_fund", "suggest_funds"} :
       \E estimate \in (-MaxEstimate)..MaxEstimate :
       \E closes \in Histories :
          forecast = [caller |-> caller, estimate |-> estimate,
                      history |-> [k \in 1..Len(closes) |-> [date |-> k, close |-> closes[k]]],
                      df |-> <<>>, forecast_nav |-> 0, reported |-> 0,
                      stage |-> "history"]

\* trader.py 2697-2714, called at main.py 87 and 171.
combine_today_info ==
    /\ forecast.stage = "history"
    /\ LET df == forecast.history
           last == df[Len(df)]
           nav == ForecastNav(last.close,
                              ChangeArgument(forecast.caller, forecast.estimate))
       IN  forecast' = [forecast EXCEPT
                          !.df = Append(df, [date |-> last.date + 1, close |-> nav]),
                          !.forecast_nav = nav,
                          !.stage = "combined"]
    /\ UNCHANGED <<runState, batch>>

\* main.py 88 and 172 with trader.py 2664: the advice is printed with
\* forecast_nav and forecast_change.
ReportForecast ==
    /\ forecast.stage = "combined"
    /\ forecast' = [forecast EXCEPT
                       !.reported = ChangeReported(forecast.caller, forecast.estimate),
                       !.stage = "reported"]
    /\ UNCHANGED <<runState, batch>>

NextForecast ==
    \/ combine_today_info
    \/ ReportForecast

SpecForecast == InitForecast /\ [][NextForecast]_vars

----------------------------------------------------------------------------
(* SpecOptimized: OptimizedTaStrategy.next, trader.py 1678-1878, with the  *)
(* ledger of its notify_order (trader.py 1643-1676, the same text as       *)
(* trader.py 2456-2489).  The predicates of the class (trader.py           *)
(* 1393-1639) are the text of trader.py 2059-2305 and its parameters       *)
(* (trader.py 1305-1316) have the values of trader.py 1967-1975, so the    *)
(* operators above are used for both.                                      *)
(*                                                                         *)
(* Units.  Shares are counted in units of 1/ShareUnit share; a sell size   *)
(* that is not a whole number of units is rounded down.  Percentages are   *)
(* whole numbers: reduce_step 0.10 times 0.5, 1.5, 2, 3 and 4.5 is 5, 15,  *)
(* 20, 30 and 45 percent.                                                  *)

ShareUnit == 8

MaxOptBars == 6         \* bars of the feed that next() processes in one run

\* size = amt / nav, in units.
OptSize(amt, nav) == (amt * 100 * ShareUnit) \div nav

\* Currency value of size units at price.
OptCost(size, price) == (size * price) \div (100 * ShareUnit)

\* trader.py 1538-1548; vr is self.vol_ratio, b.close_1 is self.close[-1].
_is_volume_breakout(b, vr) == vr[1] > 2 * vr[2] /\ b.close > b.close_1

\* trader.py 1550-1556.
_is_volume_shrink(vr) == vr[1] > 0 /\ 2 * vr[1] < vr[2]

\* trader.py 1558-1570; b.recent_low is min(close[-1] .. close[-5]).
_is_bullish_volume_divergence(b, vr) ==
    b.close < b.recent_low /\ 2 * vr[1] > 3 * vr[2]

\* trader.py 1572-1584; b.recent_high is max(close[-1] .. close[-5]).
_is_bearish_volume_divergence(b, vr) ==
    b.close > b.recent_high /\ vr[1] > 0 /\ 10 * vr[1] < 7 * vr[2]

\* What a branch of next() does: the order it hands to the broker, the
\* advisory string it sets (NoSignal when it sets none) and whether it
\* records start_nav.
Outcome(o, advice, starts) == [order |-> o, advice |-> advice, starts |-> starts]

\* trader.py 1754-1761 and the like: a buy of min(increase_amt, cash_avail)
\* in execution mode, the advice of increase_amt in advisory mode.
OptBuy(increase_amt, cash_avail, nav, kind) ==
    LET amt == Min(increase_amt, cash_avail)
    IN  IF amt > 0 /\ function = "trend"
        THEN Outcome(Buy(OptSize(amt, nav)), NoSignal, FALSE)
        ELSE IF function = "suggestion"
        THEN Outcome(NoSubmit, Advice(kind, "", increase_amt), FALSE)
        ELSE Outcome(NoSubmit, NoSignal, FALSE)

\* trader.py 1825: size_to_sell = pos.size * reduce_step; pct is reduce_step
\* in percent.
HighSellSize(pos, pct, max_shares) == (pos * pct) \div 100

\* trader.py 1847-1854 and 1869-1872: min(pos.size * ratio, can_reduce) with
\* can_reduce = max(0, pos.size - max_hold_shares * bottom_ratio).
FlooredSellSize(pos, pct, max_shares) ==
    Min(pos * pct, Max(0, pos * 100 - max_shares * BottomRatioPct)) \div 100

\* trader.py 1820-1830: the high sell of the range branch.
RangeHighSell(pos, pct, max_shares) ==
    IF pos > 0 /\ function = "trend"
    THEN Outcome(IF HighSellSize(pos, pct, max_shares) > 0
                 THEN Sell(HighSellSize(pos, pct, max_shares)) ELSE NoSubmit,
                 NoSignal, FALSE)
    ELSE IF function = "suggestion"
    THEN Outcome(NoSubmit, Advice("range trim", "", pct), FALSE)
    ELSE Outcome(NoSubmit, NoSignal, FALSE)

\* trader.py 1845-1861: the strong-down branch; step is reduce_step in
\* percent and the ratio sold is min(1.0, reduce_step).
StrongDownSell(pos, step, max_shares) ==
    IF pos > 0 /\ function = "trend" /\ pos * 100 > max_shares * BottomRatioPct
    THEN Outcome(IF FlooredSellSize(pos, Min(100, step), max_shares) > 0
                 THEN Sell(FlooredSellSize(pos, Min(100, step), max_shares))
                 ELSE NoSubmit,
                 NoSignal, FALSE)
    ELSE IF function = "suggestion"
    THEN Outcome(NoSubmit, Advice("strong down trim", "", step), FALSE)
    ELSE Outcome(NoSubmit, NoSignal, FALSE)

\* trader.py 1864-1878: the weak-down branch.
WeakDownSell(pos, step, max_shares) ==
    IF pos > 0 /\ function = "trend"
    THEN Outcome(IF pos * 100 > max_shares * BottomRatioPct
                    /\ FlooredSellSize(pos, step, max_shares) > 0
                 THEN Sell(FlooredSellSize(pos, step, max_shares))
                 ELSE NoSubmit,
                 NoSignal, FALSE)
    ELSE IF function = "suggestion"
    THEN Outcome(NoSubmit, Advice("weak down trim", "", step), FALSE)
    ELSE Outcome(NoSubmit, NoSignal, FALSE)

\* trader.py 1833-1842: the range entry.
OptRangeEntry(entry_amt, nav) ==
    LET amt == Min(entry_amt, _cash_available)
    IN  IF RangeEntryBuys(amt)
        THEN Outcome(Buy(OptSize(amt, nav)), NoSignal, TRUE)
        ELSE IF function = "suggestion"
        THEN Outcome(NoSubmit, Advice("range entry", "", entry_amt), FALSE)
        ELSE Outcome(NoSubmit, NoSignal, FALSE)

\* trader.py 1719-1878: the main logic of next() on the bar b, after the
\* entry phase; vr is self.vol_ratio of the bar and score the entry score.
MainLogic(b, vr, score) ==
    LET nav == b.close
        cash_avail == _cash_available
        strong_up_trend == _is_strong_up_trend(b)
        weak_up_trend == _is_weak_up_trend(b)
        strong_down_trend == _is_strong_down_trend(b)
        weak_down_trend == _is_weak_down_trend(b)
        consolidation == _is_consolidation(b)
        overbought == _is_overbought(b)
        oversold == _is_oversold(b)
        volume_breakout == _is_volume_breakout(b, vr)
        volume_shrink == _is_volume_shrink(vr)
        bullish_divergence == _is_bullish_volume_divergence(b, vr)
        bearish_divergence == _is_bearish_volume_divergence(b, vr)
        \* daily_amount * 2 * (1 + min(1, adx / 50)), times 1.2 on a breakout
        strong_amt == (DailyAmount * 2 * (50 + Min(50, b.adx))) \div 50
    IN  IF strong_up_trend /\ ~overbought
        THEN OptBuy(IF volume_breakout THEN (strong_amt * 6) \div 5 ELSE strong_amt,
                    cash_avail, nav, "strong up add")
        ELSE IF strong_up_trend /\ overbought
        THEN OptBuy(IF bearish_divergence THEN DailyAmount \div 2 ELSE DailyAmount,
                    cash_avail, nav, "strong up overbought add")
        ELSE IF weak_up_trend /\ ~overbought
        THEN OptBuy(IF bullish_divergence THEN (DailyAmount * 3) \div 2 ELSE DailyAmount,
                    cash_avail, nav, "weak up add")
        ELSE IF (strong_up_trend \/ weak_up_trend) /\ oversold
        THEN OptBuy(IF volume_shrink THEN (DailyAmount * 9) \div 5
                    ELSE (DailyAmount * 3) \div 2,
                    cash_avail, nav, "pullback add")
        ELSE IF consolidation
        THEN IF (nav <= b.bb_bot \/ oversold) /\ ~(strong_down_trend \/ weak_down_trend)
             THEN OptBuy(IF bullish_divergence THEN (DailyAmount * 3) \div 2
                         ELSE DailyAmount,
                         cash_avail, nav, "range low buy")
             ELSE IF (nav >= b.bb_top \/ overbought) /\ ~(strong_up_trend \/ weak_up_trend)
             THEN RangeHighSell(position,
                           IF bearish_divergence \/ volume_shrink
                           THEN (ReduceStepPct * 3) \div 2 ELSE ReduceStepPct,
                           max_hold_shares)
             ELSE IF score > 0
             THEN OptRangeEntry(EntryAmount(score), nav)
             ELSE Outcome(NoSubmit, NoSignal, FALSE)
        ELSE IF strong_down_trend
        THEN LET base == IF overbought THEN ReduceStepPct * 3 ELSE ReduceStepPct * 2
             IN  StrongDownSell(position,
                                IF volume_breakout THEN (base * 3) \div 2 ELSE base,
                                max_hold_shares)
        ELSE IF weak_down_trend
        THEN WeakDownSell(position,
                          IF bullish_divergence THEN ReduceStepPct \div 2
                          ELSE ReduceStepPct,
                          max_hold_shares)
        ELSE Outcome(NoSubmit, NoSignal, FALSE)

\* trader.py 1678-1878: OptimizedTaStrategy.next() on the bar b, the whole
\* method.  consecutive_up_days and consecutive_down_days (trader.py
\* 1707-1715) are written and never read, and are left out.
OptimizedTaStrategy_next(b) ==
    /\ pc = "ledger" /\ order = NoOrder /\ submitted = NoSubmit
    /\ Processed < MaxOptBars
    /\ LET nb == [b EXCEPT !.len = bar.len + 1]
           nav == nb.close
           vr == VolRatioOf(nb)
           score == _is_good_entry_point(nb, vr)
           entry_amt == EntryAmount(score)
           amt == Min(entry_amt, _cash_available)
           opening == IF function = "suggestion" /\ score > 0
                      THEN Advice("suggest open", "", entry_amt) ELSE Nothing
           out == MainLogic(nb, vr, score)
       IN  /\ bar' = nb
           /\ vol_ratio' = vr
           /\ entry_score' = score
           /\ IF start_nav = NoNav /\ function = "trend"
              THEN /\ IF EntryLeaves(score, nb.len)
                      THEN /\ submitted' = IF amt > 0 THEN Buy(OptSize(amt, nav))
                                           ELSE NoSubmit
                           /\ start_nav' = <<nav>>
                      ELSE UNCHANGED <<submitted, start_nav>>
                   /\ self_signal' = Nothing
              ELSE /\ submitted' = out.order
                   /\ start_nav' = IF out.starts THEN <<nav>> ELSE start_nav
                   /\ self_signal' = IF out.advice = NoSignal THEN opening
                                     ELSE out.advice
           /\ sent' = Ordered(submitted')
    /\ UNCHANGED <<pc, engineVars, ledgerVars, order, nfills, function, state, track,
                   cash, position, runVars>>

\* The broker executes the order of the bar at the open of the next bar,
\* which is 1.00 on this feed, and notifies the strategy; the notifications
\* Submitted and Accepted that precede it return from notify_order at once
\* (trader.py 1644-1645).  A buy the cash does not cover ends in Margin.
BrokerFill ==
    /\ pc = "ledger" /\ order = NoOrder /\ submitted # NoSubmit
    /\ LET cost == OptCost(submitted.size, 100)
       IN  IF submitted.kind = "buy"
           THEN IF cost > cash
                THEN /\ order' = Notify("Margin", 0, 0)
                     /\ UNCHANGED <<cash, position>>
                ELSE /\ order' = Notify("Completed", submitted.size, 100)
                     /\ cash' = cash - cost
                     /\ position' = position + submitted.size
           ELSE /\ order' = Notify("Completed", -submitted.size, 100)
                /\ cash' = cash + cost
                /\ position' = position - submitted.size
    /\ submitted' = NoSubmit
    /\ UNCHANGED <<pc, bar, engineVars, ledgerVars, nfills, strategyVars, runVars>>

\* The bars of the feed: close[-1] and the extremes of the five closes
\* before the bar are added to the driver's bars.
OptBase(b) == [close_1 |-> 100, recent_low |-> 100, recent_high |-> 100] @@ b

\* A strong down bar that is overbought on a volume breakout: the close is
\* above the close before, the volume above twice its average.
BarSDBreakout ==
    [OptBase(BarSD) EXCEPT !.rsi = 80, !.volume = 25, !.close_1 = 99]

\* A range bar at a high made on weak volume.
BarCOHighQuiet ==
    [OptBase(BarCOHighSell) EXCEPT !.volume = 6, !.recent_high = 99]

OptBars == {OptBase(BarCOEntry1), OptBase(BarCOHighSell), BarCOHighQuiet,
            OptBase(BarSU), OptBase(BarSD), BarSDBreakout, OptBase(BarWD)}

InitOptimized ==
    /\ pc = "ledger"
    /\ bar = [OptBase(DriverBase) EXCEPT !.len = MinPeriod - 1]
    /\ trend_prev = ""
    /\ trend_now = ""
    /\ EngineInit
    /\ LedgerInit
    /\ function \in {"trend", "suggestion"}
    /\ start_nav = NoNav
    /\ self_signal = NoSignal
    /\ entry_score = 0
    /\ vol_ratio = <<0, 1>>
    /\ sent = <<>>
    /\ state = None
    /\ track = NoTrack
    /\ cash = 10000
    /\ position = 0
    /\ submitted = NoSubmit
    /\ series = <<>>
    /\ results = <<>>
    /\ NoCaller

OptimizedBar == \E b \in OptBars : OptimizedTaStrategy_next(b)

NextOptimized ==
    \/ OptimizedBar
    \/ BrokerFill
    \/ notify_order

SpecOptimized == InitOptimized /\ [][NextOptimized]_vars

----------------------------------------------------------------------------
(* SpecDynamic: DynamicAddReduceStrategy, trader.py 6-141, on a fund feed  *)
(* whose open is its close (utils_efinance.py 83).  The class has no       *)
(* notify_order; it keeps hold_shares and hold_cost in next().  Shares are *)
(* counted in units of 1/ShareUnit share, hold_cost in units times         *)
(* hundredths, and a quotient that is not whole is rounded down.           *)

DynInitialAmount == 2000   \* min(2000.0, cash), trader.py 70
AddSizePct == 3            \* add_size = 0.03 * position, trader.py 104
DailyMinAmount == 200      \* daily_min_amount, trader.py 17
DailyMaxAmount == 500      \* daily_max_amount, trader.py 18
ReduceFractionPct == 10    \* reduce_fraction = 0.10, trader.py 19
DynMinPeriod == 20         \* the longest indicator period, SMA 20, trader.py 37

MaxDynBars == 3            \* bars of the feed that next() processes in one run

\* trader.py 46-51: the trend of the highs and lows; b.highest_1 and
\* b.lowest_1 are self.highest[-1] and self.lowest[-1].
hl_trend(b) ==
    IF b.nav >= b.highest_1 /\ b.nav > b.lowest_1 THEN "up"
    ELSE IF b.nav <= b.lowest_1 /\ b.nav < b.highest_1 THEN "down"
    ELSE "sideways"

\* trader.py 54-59.
ma_trend(b) ==
    IF b.sma_short > b.sma_long THEN "up"
    ELSE IF b.sma_short < b.sma_long THEN "down"
    ELSE "sideways"

\* trader.py 62-65: the highs and lows come first.
trend(b) == IF hl_trend(b) # "sideways" THEN hl_trend(b) ELSE ma_trend(b)

\* trader.py 88-99: the state after the switch.
StateSwitch(st, tr) ==
    IF st = "HOLD" \/ st = "REDUCE"
    THEN IF tr = "up" THEN "ADD"
         ELSE IF tr = "sideways" THEN "HOLD"
         ELSE st
    ELSE IF st = "HOLD" \/ st = "ADD"
    THEN IF tr = "down" THEN "REDUCE"
         ELSE IF tr = "sideways" THEN "HOLD"
         ELSE st
    ELSE IF tr = "sideways" THEN "HOLD"
    ELSE st

\* trader.py 103-107: the amount of an add at nav.
DynAddAmount(nav) ==
    LET size_amount == (AddSizePct * position * nav) \div (100 * 100 * ShareUnit)
        max_amount == Max(DailyMinAmount, size_amount)
    IN  Min(Min(max_amount, cash), DailyMaxAmount)

\* trader.py 136-141: the extremes and last_nav at the end of next().
Marked(t, nav) ==
    [t EXCEPT !.recent_high = Max(t.recent_high, nav),
              !.recent_low = Min(t.recent_low, nav),
              !.last_nav = nav]

\* The bars of the feed: the close, the highest and the lowest close of the
\* ten bars before, and the two moving averages.
DynBars ==
    { [nav |-> n, highest_1 |-> hl[1], lowest_1 |-> hl[2],
       sma_short |-> s, sma_long |-> 100, len |-> 0] :
          n \in {95, 100, 105}, hl \in {<<105, 95>>, <<100, 100>>}, s \in {99, 100, 101} }

\* The engine moves to the next bar of the feed: the broker executes the
\* order of the bar before at the open, which is the close of b, and
\* next() is due.  The close of the bar before is within the extremes of
\* b.  A buy the cash does not cover is not executed.
DynamicFeed ==
    /\ pc = "ledger"
    /\ bar.len - (DynMinPeriod - 1) < MaxDynBars
    /\ \E b \in DynBars :
          /\ state # "INIT" => (b.lowest_1 <= track.last_nav /\ track.last_nav <= b.highest_1)
          /\ bar' = [b EXCEPT !.len = bar.len + 1]
          /\ LET cost == OptCost(submitted.size, b.nav)
             IN  IF submitted.kind = "buy" /\ cost <= cash
                 THEN /\ cash' = cash - cost
                      /\ position' = position + submitted.size
                 ELSE IF submitted.kind = "sell"
                 THEN /\ cash' = cash + cost
                      /\ position' = position - submitted.size
                 ELSE UNCHANGED <<cash, position>>
    /\ submitted' = NoSubmit
    /\ pc' = "call"
    /\ UNCHANGED <<trend_prev, trend_now, engineVars, ledgerVars, order, nfills,
                   strategyVars, runVars>>

\* trader.py 42-141: DynamicAddReduceStrategy.next() on the current bar, the
\* whole method.
DynamicAddReduceStrategy_next ==
    /\ pc = "call"
    /\ LET nav == bar.nav
           tr == trend(bar)
           st == StateSwitch(state, tr)
           amount == DynAddAmount(nav)
           size_to_sell == (position * ReduceFractionPct) \div 100
           avg_cost == IF hold_shares > 0 THEN hold_cost \div hold_shares ELSE 0
       IN  IF state = "INIT"
           THEN /\ submitted' = Buy(OptSize(Min(DynInitialAmount, cash), nav))
                /\ track' = [last_nav |-> nav, recent_high |-> nav, recent_low |-> nav,
                             total_invested |->
                                track.total_invested + Min(DynInitialAmount, cash)]
                /\ start_nav' = <<nav>>
                /\ state' = "HOLD"
                /\ UNCHANGED <<hold_shares, hold_cost>>
           ELSE /\ state' = st
                /\ start_nav' = start_nav
                /\ IF st = "ADD" /\ amount > 0
                   THEN /\ submitted' = Buy(OptSize(amount, nav))
                        /\ track' = Marked([track EXCEPT
                                       !.total_invested = track.total_invested + amount,
                                       !.recent_low = nav], nav)
                        /\ hold_shares' = hold_shares + OptSize(amount, nav)
                        /\ hold_cost' = hold_cost + OptSize(amount, nav) * nav
                   ELSE IF st = "REDUCE" /\ nav < track.last_nav /\ size_to_sell > 0
                   THEN /\ submitted' = Sell(size_to_sell)
                        /\ track' = Marked([track EXCEPT !.recent_high = nav], nav)
                        /\ hold_shares' = hold_shares - size_to_sell
                        /\ hold_cost' = hold_cost - size_to_sell * avg_cost
                   ELSE /\ submitted' = NoSubmit
                        /\ track' = Marked(track, nav)
                        /\ UNCHANGED <<hold_shares, hold_cost>>
    /\ sent' = Ordered(submitted')
    /\ pc' = "ledger"
    /\ UNCHANGED <<bar, trend_prev, trend_now, engineVars, realized_pnl, max_hold_shares,
                   order, nfills, function, self_signal, entry_score, vol_ratio,
                   cash, position, runVars>>

\* trader.py 23-40 with the cash of start_trading (trader.py 2728).
InitDynamic ==
    /\ pc = "ledger"
    /\ bar = [nav |-> 100, highest_1 |-> 100, lowest_1 |-> 100,
              sma_short |-> 100, sma_long |-> 100, len |-> DynMinPeriod - 1]
    /\ trend_prev = ""
    /\ trend_now = ""
    /\ EngineInit
    /\ LedgerInit
    /\ function = None
    /\ start_nav = NoNav
    /\ self_signal = NoSignal
    /\ entry_score = 0
    /\ vol_ratio = <<0, 1>>
    /\ sent = <<>>
    /\ state = "INIT"
    /\ track = NoTrack
    /\ cash \in CashVals
    /\ position = 0
    /\ submitted = NoSubmit
    /\ series = <<>>
    /\ results = <<>>
    /\ NoCaller

NextDynamic ==
    \/ DynamicFeed
    \/ DynamicAddReduceStrategy_next

SpecDynamic == InitDynamic /\ [][NextDynamic]_vars

----------------------------------------------------------------------------
(* Properties of the transition decision engine, checked under SpecTrend.  *)

Returned == pc = "ret"

Pair == <<trend_prev, trend_now>>

\* The transition table of the specification: (prev, curr) -> ratio.
TransitionTable ==
    (<<"CO", "WU">> :> 1)  @@ (<<"WU", "SU">> :> 2)  @@ (<<"CO", "SU">> :> 3)  @@
    (<<"SU", "WU">> :> -1) @@ (<<"WU", "CO">> :> -1) @@ (<<"SU", "CO">> :> -2) @@
    (<<"CO", "WD">> :> -3) @@ (<<"WD", "SD">> :> -4) @@ (<<"CO", "SD">> :> -5) @@
    (<<"SD", "WD">> :> 0)  @@ (<<"WD", "CO">> :> 0)  @@ (<<"SD", "CO">> :> 0)  @@
    (<<"WU", "WD">> :> 0)  @@ (<<"WD", "WU">> :> 0)

TablePairs == DOMAIN TransitionTable

PersistencePairs == {<<"WU", "WU">>, <<"WD", "WD">>, <<"SU", "SU">>, <<"SD", "SD">>}

\* The rationales only the consolidation branch returns.
RangeRationales ==
    {"range market, buy low", "range market, sell high",
     "range market, no actionable point",
     "range market breaking out, await confirmation"}

\* C1: for every ordered pair prev # curr of the transition table,
\* _trend_change returns exactly the tabulated ratio.
C1_TransitionTable ==
    (Returned /\ Pair \in TablePairs)
        => trend_ratio = TransitionTable[Pair] * RatioDen

\* C1 witness: Consolidation -> StrongDown has returned -5.
C1_Witness ==
    /\ Returned /\ trend_prev = "CO" /\ trend_now = "SD"
    /\ trend_ratio = (-5) * RatioDen

\* C2: when prev = curr the ratio is +0.5 for WeakUp, -1 for WeakDown, +0.5
\* for StrongUp, -2 for StrongDown and 0 for Undetermined; for Consolidation
\* the result is the consolidation branch's (anticipator / band position).
C2_Persistence ==
    (Returned /\ trend_prev = trend_now) =>
        /\ trend_now = "WU" => 2 * trend_ratio = RatioDen
        /\ trend_now = "WD" => trend_ratio = (-1) * RatioDen
        /\ trend_now = "SU" => 2 * trend_ratio = RatioDen
        /\ trend_now = "SD" => trend_ratio = (-2) * RatioDen
        /\ trend_now = "UT" => trend_ratio = 0
        /\ trend_now = "CO" =>
              /\ signal \in RangeRationales
              /\ signal = "range market breaking out, await confirmation"
                    <=> _breakout_coming(bar)

\* C2 witness: StrongDown persisted and returned -2, a large trim.
C2_Witness ==
    /\ Returned /\ trend_prev = "SD" /\ trend_now = "SD"
    /\ trend_ratio = (-2) * RatioDen
    /\ signal = "hold strong downtrend, large trim"

\* C3: every one of the 36 pairs returns a defined (ratio, rationale); a
\* pair matched by neither a persistence rule nor a table rule and whose
\* curr is not Consolidation returns ratio 0 with the "no action" rationale.
C3_Totality ==
    Returned =>
        /\ signal # ""
        /\ trend_ratio \in ((-5) * RatioDen)..(3 * RatioDen)
        /\ (Pair \notin (PersistencePairs \cup TablePairs) /\ trend_now # "CO")
              => (trend_ratio = 0 /\ signal = "no action")

\* C3 witness: StrongUp -> StrongDown, an unlisted pair, returned no action.
C3_Witness ==
    /\ Returned /\ trend_prev = "SU" /\ trend_now = "SD"
    /\ trend_ratio = 0 /\ signal = "no action"

\* The pairs whose directive the claim says is independent of the bar.
BarIndependentPair ==
    trend_now # "CO" \/ trend_prev \in {"WU", "SU", "WD", "SD"}

\* C4: for curr # Consolidation, and for WU/SU/WD/SD -> CO, the directive is
\* a function of (prev, curr) alone: it equals the directive the same pair
\* gets on the reference bar, whatever the indicators of this bar; and
\* Consolidation -> StrongUp always gives +3.
C4_PairAlone ==
    (Returned /\ BarIndependentPair) =>
        /\ <<trend_ratio, signal>> = _trend_change(trend_prev, trend_now, RefBar)
        /\ Pair = <<"CO", "SU">> => trend_ratio = 3 * RatioDen

\* C4 witness: Consolidation -> StrongUp returned +3 on a bar that differs
\* from the reference bar and on which the band decision would be a trim.
C4_Witness ==
    /\ Returned /\ Pair = <<"CO", "SU">> /\ trend_ratio = 3 * RatioDen
    /\ bar # RefBar
    /\ ~_breakout_coming(bar)
    /\ BandDecision(bar)[1] < 0
    /\ BandDecision(RefBar)[1] > 0

\* low_buy and high_sell as the specification states them.
LowBuy(b) ==
    /\ b.close <= b.bb_bot \/ _is_oversold(b)
    /\ 10 * Abs(b.bb_top - b.bb_top_3) < 2 * b.atr
    /\ 10 * b.volume <= 12 * b.vol_sma

HighSell(b) ==
    /\ b.close >= b.bb_top \/ _is_overbought(b)
    /\ 10 * Abs(b.bb_top - b.bb_top_3) < 2 * b.atr
    /\ 10 * b.volume <= 13 * b.vol_sma

\* C5: when curr = Consolidation and prev is Consolidation or Undetermined,
\* the ratio is 0 if the anticipator is true, otherwise +1 if low_buy, else
\* -1 if high_sell, else 0; low_buy wins when both hold.
C5_ConsolidationBranch ==
    (Returned /\ trend_now = "CO" /\ trend_prev \in {"CO", "UT"}) =>
        trend_ratio = IF _breakout_coming(bar) THEN 0
                      ELSE IF LowBuy(bar) THEN RatioDen
                      ELSE IF HighSell(bar) THEN -RatioDen
                      ELSE 0

\* C5 witness: no breakout, low_buy and high_sell both hold, result is +1.
C5_Witness ==
    /\ Returned /\ trend_now = "CO" /\ trend_prev = "UT"
    /\ ~_breakout_coming(bar) /\ LowBuy(bar) /\ HighSell(bar)
    /\ trend_ratio = RatioDen

----------------------------------------------------------------------------
(* Property of the regime classifier, checked under SpecClassify.          *)

\* C6: _get_trend labels a bar L iff L's predicate holds and no predicate
\* earlier in the order SU, WU, CO, SD, WD holds; UT iff none holds.
C6_FirstMatchWins ==
    Returned =>
        LET su == _is_strong_up_trend(bar)
            wu == _is_weak_up_trend(bar)
            co == _is_consolidation(bar)
            sd == _is_strong_down_trend(bar)
            wd == _is_weak_down_trend(bar)
        IN  /\ trend_now \in Labels
            /\ trend_now = "SU" <=> su
            /\ trend_now = "WU" <=> (wu /\ ~su)
            /\ trend_now = "CO" <=> (co /\ ~wu /\ ~su)
            /\ trend_now = "SD" <=> (sd /\ ~co /\ ~wu /\ ~su)
            /\ trend_now = "WD" <=> (wd /\ ~sd /\ ~co /\ ~wu /\ ~su)
            /\ trend_now = "UT" <=> ~(su \/ wu \/ co \/ sd \/ wd)

\* C6 witness: a bar satisfying both the Consolidation and the StrongDown
\* predicate is labelled Consolidation.
C6_Witness ==
    /\ Returned /\ trend_now = "CO"
    /\ _is_consolidation(bar) /\ _is_strong_down_trend(bar)

----------------------------------------------------------------------------
(* Properties of the position ledger, checked under SpecLedger.            *)

\* A Completed sell / buy is about to be processed by notify_order.
SellFillPending == pc = "ledger" /\ order.status = "Completed" /\ order.size < 0
BuyFillPending == pc = "ledger" /\ order.status = "Completed" /\ order.size > 0

\* C7 (as claimed): after every fill, hold_cost >= 0 and hold_shares >= 0.
C7_NonNegativeLedger == hold_cost >= 0 /\ hold_shares >= 0

\* C8 (as claimed): after a sell that leaves hold_shares > 0, the average
\* cost hold_cost / hold_shares is what it was before the sell.
C8_AvgCostKeptBySell ==
    [][(SellFillPending /\ hold_shares' > 0)
          => hold_cost' * hold_shares = hold_cost * hold_shares']_vars

\* C9: a sell fill of s shares at price p with pre-fill average cost
\* c = hold_cost / hold_shares (0 if hold_shares is 0) increases
\* realized_pnl by exactly s * (p - c); a buy fill leaves it unchanged.
C9_RealizedPnl ==
    [][/\ SellFillPending =>
            LET s == -order.size
                p == order.price
            IN  IF hold_shares > 0
                THEN hold_shares * (realized_pnl' - realized_pnl)
                        = PnlScale * s * (p * hold_shares - hold_cost)
                ELSE realized_pnl' - realized_pnl = PnlScale * s * p
       /\ BuyFillPending => realized_pnl' = realized_pnl]_vars

\* C9 witness: a sell above average cost has been booked as a gain while
\* shares remain.
C9_Witness == realized_pnl > 0 /\ hold_shares > 0 /\ order = NoOrder

\* C10: max_hold_shares never decreases, and after every fill it is at
\* least hold_shares.
C10_HighWaterMark ==
    [][max_hold_shares' >= max_hold_shares /\ max_hold_shares' >= hold_shares']_vars

\* C10 witness: after a sell the high-water mark stands above the holding.
C10_Witness == hold_shares > 0 /\ max_hold_shares > hold_shares /\ order = NoOrder

\* C11: whenever a fill leaves hold_shares below the epsilon, hold_shares
\* and hold_cost are both exactly 0 afterwards; hence in every reachable
\* ledger state hold_shares = 0 implies hold_cost = 0.
C11_EpsilonReset ==
    /\ hold_shares < 1 => (hold_shares = 0 /\ hold_cost = 0)
    /\ hold_shares = 0 => hold_cost = 0

\* C11 witness: the whole position was sold at a price other than its
\* average cost (a gain or loss was booked) and the ledger is empty again.
C11_Witness ==
    /\ order = NoOrder /\ max_hold_shares > 0 /\ realized_pnl # 0
    /\ hold_shares = 0 /\ hold_cost = 0

----------------------------------------------------------------------------
(* Properties of the strategy driver, checked under SpecDriver.            *)

\* A step that is a call of next(): a bar after the warm-up.
NextStep == pc = "ledger" /\ bar.len >= MinPeriod - 1 /\ bar'.len = bar.len + 1

\* next() on a bar of the entry phase: execution mode, start_nav is None.
EntryStep == NextStep /\ function = "trend" /\ start_nav = NoNav

\* next() on a bar of the transition phase in execution mode.
TransitionStep == NextStep /\ function = "trend" /\ start_nav # NoNav

\* min(position * |ratio| * reduce_step, position - max_held * bottom_ratio)
\* in units of 1/SizeDen share.
ClaimedSell(pos, ratio, max_shares) ==
    Min(pos * Abs(ratio) * ReduceStepPct,
        pos * SizeDen - max_shares * BottomRatioPct * RatioDen)

\* C12: in execution mode, when the ratio of the directive is negative and
\* the position is positive, next() submits a sell of
\* min(position * |ratio| * reduce_step, position - max_held * bottom_ratio)
\* shares whenever that quantity is positive.
C12_SellSubmitted ==
    [][(/\ TransitionStep
        /\ trend_ratio' < 0
        /\ position > 0
        /\ ClaimedSell(position, trend_ratio', max_hold_shares) > 0)
       => /\ submitted'.kind = "sell"
          /\ submitted'.size * SizeDen
                = ClaimedSell(position, trend_ratio', max_hold_shares)]_vars

C14_ClippedTo100 ==
    [][(/\ TransitionStep
        /\ position = 1000 /\ hold_shares = 1000 /\ max_hold_shares = 1000
        /\ trend_ratio' = -2 * RatioDen)
       => submitted' = Sell(100)]_vars

\* C15: in execution mode a directive of positive ratio buys for
\* min(ratio * daily_amount, available cash): the amount is never above the
\* cash at submission, and no order is submitted when it is 0 or less.
C15_BuyClipped ==
    [][(TransitionStep /\ trend_ratio' > 0)
       => LET amt == Min((DailyAmount * trend_ratio') \div RatioDen, cash)
          IN  /\ amt <= cash
              /\ IF amt > 0
                 THEN submitted' = Buy((amt * 100) \div bar'.close)
                 ELSE submitted' = NoSubmit]_vars

\* A buy of the transition phase that was clipped to the cash left.
C15_Witness ==
    /\ function = "trend" /\ start_nav # NoNav
    /\ trend_ratio > 0
    /\ submitted.kind = "buy" /\ submitted.stage = "new"
    /\ cash < AddAmount(trend_ratio)
    /\ Cost(submitted.size, bar.close) = cash

\* C16: in advisory mode no order is ever submitted, so the ledger fields
\* stay 0 for the whole run.
C16_AdvisoryNoOrders ==
    function = "suggestion"
       => /\ submitted = NoSubmit /\ order = NoOrder /\ position = 0
          /\ hold_shares = 0 /\ hold_cost = 0
          /\ realized_pnl = 0 /\ max_hold_shares = 0

\* An advisory run has advised to add to the position.
C16_Witness ==
    /\ function = "suggestion"
    /\ trend_ratio > 0
    /\ self_signal.kind = "add" /\ self_signal.value > 0

C18_LedgerOnlyOnCompleted ==
    [][(\/ hold_shares' # hold_shares
        \/ hold_cost' # hold_cost
        \/ realized_pnl' # realized_pnl
        \/ max_hold_shares' # max_hold_shares)
       => (order.status = "Completed" /\ order' = NoOrder)]_vars

\* A fill has been booked and the notifications of a second order, which
\* was not filled, have been handled.
C18_Witness ==
    /\ order = NoOrder /\ submitted = NoSubmit
    /\ nfills >= 5
    /\ hold_shares > 0 /\ hold_shares = position

\* The multiplier of a score.
Multiplier(score) == IF score >= 3 THEN 2 ELSE IF score >= 2 THEN 1 ELSE 0

\* C19: on every bar of the entry phase the score is the number of the four
\* signals that hold on that bar (oversold; momentum rising and positive;
\* close within 2% above the lower band; volume ratio of the bar above 1.0),
\* and the multiplier is 2 for a score of 3 or more, 1 for 2, else 0.
C19_EntryScore ==
    [][EntryStep
       => entry_score' =
             Multiplier(Count(<< _is_oversold(bar'),
                                 bar'.momentum > bar'.momentum_1 /\ bar'.momentum > 0,
                                 bar'.close * 100 <= bar'.bb_bot * 102,
                                 bar'.vol_sma > 0 /\ bar'.volume > bar'.vol_sma >>))]_vars

\* C20 as stated: on the first processed bar whose count exceeds 5 the
\* driver leaves the entry phase whatever the score, buying the amount the
\* score implies and nothing when the multiplier is 0.
C20_TimeoutEntry ==
    [][(EntryStep /\ bar'.len > EntryTimeout)
       => /\ start_nav' # NoNav
          /\ IF entry_score' = 0
             THEN submitted' = NoSubmit
             ELSE submitted' = Buy((InitialAmount * entry_score' * 100) \div bar'.close)]_vars

\* C20: the same, the amount being the smaller of the amount the score
\* implies and the available cash.
C20_TimeoutEntryClipped ==
    [][(EntryStep /\ bar'.len > EntryTimeout)
       => /\ start_nav' # NoNav
          /\ LET amt == Min(InitialAmount * entry_score', cash - MinCashBuffer)
             IN  IF amt > 0
                 THEN submitted' = Buy((amt * 100) \div bar'.close)
                 ELSE submitted' = NoSubmit]_vars

\* The entry phase was left on the first processed bar with a multiplier of
\* 0 and without an order.
C20_Witness ==
    /\ function = "trend" /\ Processed = 1
    /\ start_nav # NoNav
    /\ entry_score = 0
    /\ submitted = NoSubmit /\ position = 0

\* C21: in execution mode with positive initial cash the run is not left
\* flat: when the run is over, the entry phase has ended and no order is
\* outstanding, a position has been opened.
C21_NotFlat ==
    (/\ pc = "stopped" /\ function = "trend"
     /\ Processed = MaxBars
     /\ start_nav # NoNav
     /\ submitted = NoSubmit /\ order = NoOrder)
       => position > 0

\* C22 as stated: with an empty ledger and cash 1000 the entry phase buys
\* for the multiplier times the daily amount: 400 for a multiplier of 2,
\* 200 for a multiplier of 1.
C22_EntryBuysDailyAmount ==
    [][(EntryStep /\ cash = 1000 /\ hold_shares = 0 /\ entry_score' >= 1)
       => /\ submitted'.kind = "buy"
          /\ Cost(submitted'.size, bar'.close) = DailyAmount * entry_score']_vars

\* C22: the entry phase buys for the multiplier times the initial amount,
\* capped by the cash: for 1000 with cash 1000 and a multiplier of 2 or 1.
C22_EntryBuysInitialAmount ==
    [][(EntryStep /\ hold_shares = 0 /\ entry_score' >= 1)
       => /\ submitted'.kind = "buy"
          /\ Cost(submitted'.size, bar'.close)
                = Min(InitialAmount * entry_score', cash)
          /\ cash = 1000 => Cost(submitted'.size, bar'.close) = 1000]_vars

\* The entry order of a run with cash 1000 and a multiplier of 2.
C22_Witness ==
    /\ function = "trend" /\ Processed = 1
    /\ cash = 1000 /\ hold_shares = 0
    /\ entry_score = 2
    /\ submitted.kind = "buy" /\ submitted.stage = "new"
    /\ Cost(submitted.size, bar.close) = 1000

\* C23: on the bar right after the entry bar the persistence rule of that
\* bar's regime is applied: when both bars are StrongUp the ratio is +0.5
\* and the driver buys for half the daily amount, capped by the cash.
C23_PersistenceAfterEntry ==
    [][(/\ TransitionStep
        /\ Processed = 1
        /\ _get_trend(bar) = "SU"
        /\ _get_trend(bar') = "SU")
       => /\ trend_ratio' * 2 = RatioDen
          /\ LET amt == Min(DailyAmount \div 2, cash)
             IN  IF amt > 0
                 THEN submitted'.kind = "buy"
                      /\ Cost(submitted'.size, bar'.close) = amt
                 ELSE submitted' = NoSubmit]_vars

\* C24: in advisory mode, when the multiplier of the final bar is positive,
\* the string the run returns is the report 'suggest opening position'
\* with the multiplier times the entry amount.
C24_SuggestOpen ==
    (pc = "stopped" /\ function = "suggestion" /\ entry_score > 0)
       => results[Len(results)] = Advice("suggest open", "", InitialAmount * entry_score)

\* C25: while an indicator is still unavailable the driver produces no
\* directive and no signal, submits no order, and the previous trend stays
\* empty; the run goes on.
C25_WarmUp ==
    bar.len < MinPeriod
       => /\ pc = "ledger"
          /\ trend_prev = "" /\ trend_now = ""
          /\ trend_ratio = 0 /\ signal = "no action"
          /\ self_signal = NoSignal
          /\ start_nav = NoNav
          /\ submitted = NoSubmit /\ order = NoOrder /\ nfills = 0
          /\ results = <<>>

\* The last warm-up bar of an execution run has gone by.
C25_Witness ==
    /\ function = "trend"
    /\ bar.len = MinPeriod - 1
    /\ trend_prev = "" /\ submitted = NoSubmit

\* C26: in a batch, a retrieval failure or an engine error of one fund is
\* fatal for that fund's run only: it is reported, and the funds of the
\* other rows are still processed.
C26_BatchGoesOn ==
    batch.status # "running"
       => \A j \in 1..Len(batch.rows) :
             /\ batch.rows[j] \in {"history", "engine"} => j \in batch.reported
             /\ batch.rows[j] \in {"none", "base_info"} => j \in batch.ran

\* C27: in every advisory entry point the forecast bar is dated one day
\* after the last bar, its close is last_close * (1 + forecast_change) for
\* the forecast_change that is reported with the advice, and the bars of
\* the history are unchanged.
C27_ForecastBar ==
    forecast.stage = "reported"
       => LET n == Len(forecast.history)
              last == forecast.history[n]
          IN  /\ Len(forecast.df) = n + 1
              /\ \A k \in 1..n : forecast.df[k] = forecast.history[k]
              /\ forecast.df[n + 1].date = last.date + 1
              /\ forecast.df[n + 1].close * 100 = last.close * (100 + forecast.reported)

\* The five signals of the anticipator.
AnticipatorSignals(b) ==
    << (b.bb_top - b.bb_bot) * 100 > (b.bb_top_5 - b.bb_bot_5) * 115,
       b.atr * 10 > b.atr_3 * 11,
       b.adx > b.adx_3 + 2,
       (b.close > b.ma_short /\ b.ma_short > b.ma_mid)
          \/ (b.close < b.ma_short /\ b.ma_short < b.ma_mid),
       b.volume * 10 > b.vol_sma * 13 >>

\* C28: _breakout_coming is true iff at least 2 of its 5 signals hold, and
\* when it is true on a Consolidation bar that reaches the consolidation
\* branch the ratio is 0 even if low_buy or high_sell holds.
C28_Anticipator ==
    Returned =>
        /\ _breakout_coming(bar) <=> Count(AnticipatorSignals(bar)) >= 2
        /\ (/\ trend_now = "CO" /\ trend_prev \in {"CO", "UT"}
            /\ Count(AnticipatorSignals(bar)) >= 2)
              => trend_ratio = 0

\* Exactly two signals hold on a Consolidation bar on which low_buy holds.
C28_Witness ==
    /\ Returned /\ trend_now = "CO" /\ trend_prev = "CO"
    /\ Count(AnticipatorSignals(bar)) = 2
    /\ LowBuy(bar)
    /\ trend_ratio = 0

\* The advice of a bar b in advisory mode whose previous label is prev_trend
\* (not empty): the one branch of next() that sets the signal.
FinalAdvice(prev_trend, b) ==
    LET now == _get_trend(b)
        d == _trend_change(prev_trend, now, b)
        score == _is_good_entry_point(b, <<0, 1>>)
    IN  IF d[1] > 0 THEN Advice("add", d[2], (DailyAmount * d[1]) \div RatioDen)
        ELSE IF d[1] < 0 THEN Advice("reduce", d[2], (ReduceStepPct * d[1]) \div RatioDen)
        ELSE IF now = "CO" /\ score > 0 THEN Advice("range entry", "", InitialAmount * score)
        ELSE Advice("plain", d[2], 0)

\* The k-th bar of the series as next() sees it.
SeriesBar(k) == [series[k] EXCEPT !.len = MinPeriod - 1 + k]

\* C29: the string an advisory run returns is the one the final bar sets,
\* computed with the label of the bar before it as the previous state; no
\* signal of an earlier bar is returned.
C29_FinalBarOnly ==
    \A k \in 1..Len(results) :
        LET n == Len(series)
        IN  results[k] = FinalAdvice(_get_trend(SeriesBar(n - 1)), SeriesBar(n))

\* A run has returned the advice of its final bar after an earlier bar had
\* set an advice of another kind, the first two bars being labelled
\* differently.
C29_Witness ==
    /\ Len(results) >= 1
    /\ results[1].kind = "add"
    /\ _get_trend(SeriesBar(1)) # _get_trend(SeriesBar(Len(series) - 1))
    /\ FinalAdvice(_get_trend(SeriesBar(1)), SeriesBar(Len(series))).kind = "reduce"

\* C30: after each bar of the transition phase trend_prev is that bar's
\* label, and the previous trend handed to _trend_change is the label of
\* the bar processed just before; the bars of the entry phase record no
\* label, so the first bar of the transition phase has no previous trend
\* and its ratio is 0.
C30_PrevIsLastLabel ==
    [][/\ EntryStep => (trend_prev = "" /\ trend_prev' = "")
       /\ (NextStep /\ ~EntryStep)
             => /\ trend_prev' = _get_trend(bar')
                /\ IF trend_prev = ""
                   THEN trend_ratio' = 0
                   ELSE /\ trend_prev = _get_trend(bar)
                        /\ <<trend_ratio', signal'>>
                              = _trend_change(trend_prev, _get_trend(bar'), bar')
       /\ (TransitionStep /\ Processed = 1)
             => (trend_prev = "" /\ trend_ratio' = 0 /\ submitted' = NoSubmit)]_vars

\* The second bar of an execution run: the entry bar was StrongUp, this bar
\* is StrongUp, and the ratio is 0.
C30_Witness ==
    /\ function = "trend" /\ Processed = 2
    /\ start_nav # NoNav
    /\ trend_prev = "SU"
    /\ trend_ratio = 0

\* C31: in execution mode next() submits at most one order per bar: never
\* a buy and a sell on the same bar, never two buys.
C31_OneOrderPerBar == function = "trend" => Len(sent) <= 1

\* A bar of the transition phase in execution mode on which a positive
\* ratio has submitted its one buy.
C31_Witness ==
    /\ function = "trend" /\ Processed >= 2
    /\ trend_ratio > 0
    /\ Len(sent) = 1 /\ sent[1].kind = "buy"
    /\ submitted = sent[1]

\* C32: in execution mode the entry phase is left once and never entered
\* again: start_nav, once set, is not reset, so the entry-sized purchase is
\* submitted at most once; the range entry of the transition phase (label
\* CO, positive entry score, ratio 0) never submits an order.
C32_EntryOnce ==
    [][/\ (function = "trend" /\ start_nav # NoNav) => start_nav' = start_nav
       /\ (TransitionStep /\ trend_ratio' = 0)
             => (submitted' = NoSubmit /\ sent' = <<>>)]_vars

\* The range entry was taken in execution mode after the entry phase, with
\* cash left to buy with, and nothing was submitted.
C32_Witness ==
    /\ function = "trend" /\ Processed >= 2
    /\ start_nav # NoNav
    /\ trend_now = "CO" /\ entry_score > 0 /\ trend_ratio = 0
    /\ Min(EntryAmount(entry_score), _cash_available) > 0
    /\ sent = <<>> /\ submitted = NoSubmit

\* C33: for any sequence of buy and sell fills after which held_shares is
\* 0, realized_pnl equals the total sale proceeds minus the total purchase
\* cost, that is what the broker's cash has gained since the start.
C33_RoundTripPnl ==
    (pc = "ledger" /\ order = NoOrder /\ nfills > 0 /\ hold_shares = 0)
       => realized_pnl = (cash - LedgerCash) * PnlScale

\* C35: in advisory mode, for a directive with a negative ratio the
\* reduction fraction reported in the advisory string is the positive
\* fraction |ratio| * reduce_step of the position (20% for ratio -2).
C35_ReducePositive ==
    (function = "suggestion" /\ self_signal.kind = "reduce")
       => /\ trend_ratio < 0
          /\ self_signal.value = (Abs(trend_ratio) * ReduceStepPct) \div RatioDen

\* The trim percentage that a rationale of _trend_change names (trader.py
\* 2398-2417), for the rationales that name one.
NamedTrim ==
    [text \in {"weak up to range, trim 10%",
                "strong up ended (possible top), trim 20%",
                "range to weak down, trim 20%",
                "weak down to strong down, trim 40%",
                "range to strong down, trim 50%"} |->
        CASE text = "weak up to range, trim 10%" -> 10
          [] text = "strong up ended (possible top), trim 20%" -> 20
          [] text = "range to weak down, trim 20%" -> 20
          [] text = "weak down to strong down, trim 40%" -> 40
          [] text = "range to strong down, trim 50%" -> 50]

\* C36: whenever _trend_change returns a negative ratio with a rationale
\* that names a trim percentage, the named percentage is |ratio| times the
\* default reduce_step (0.10), the fraction the driver would sell.
C36_NamedTrimIsRatio ==
    (Returned /\ trend_ratio < 0 /\ signal \in DOMAIN NamedTrim)
       => NamedTrim[signal] = (Abs(trend_ratio) * ReduceStepPct) \div RatioDen

\* C34: in execution mode of OptimizedTaStrategy every sell that next()
\* submits, in the range high-sell branch, the strong-down branch or the
\* weak-down branch, leaves the position at or above
\* max_held_shares * bottom_ratio.
C34_SellKeepsBottom ==
    (function = "trend" /\ submitted.kind = "sell")
       => (position - submitted.size) * 100 >= max_hold_shares * BottomRatioPct

\* A step that is a call of DynamicAddReduceStrategy.next().
DynamicStep == pc = "call" /\ pc' = "ledger"

\* C37: in DynamicAddReduceStrategy the first bar moves INIT to HOLD;
\* after it a bar whose combined trend is down moves the state to REDUCE
\* from HOLD and from ADD, a bar whose trend is up moves it to ADD from
\* HOLD and from REDUCE, and a sideways bar moves any state to HOLD; the
\* state never returns to INIT.
C37_StateMachine ==
    [][DynamicStep =>
          /\ state' # "INIT"
          /\ state = "INIT" => state' = "HOLD"
          /\ (state \in {"HOLD", "ADD"} /\ trend(bar) = "down") => state' = "REDUCE"
          /\ (state \in {"HOLD", "REDUCE"} /\ trend(bar) = "up") => state' = "ADD"
          /\ (state # "INIT" /\ trend(bar) = "sideways") => state' = "HOLD"]_vars

====
